---- MODULE Spec2Model ----
(***************************************************************************)
(* diffx: the range parser (format matchers tried in a fixed order) and    *)
(* the life of one invocation (parse, resolve through the git plumbing     *)
(* client, generate the output, clean the temporary refs up).              *)
(*                                                                         *)
(* Strings are sequences of one-character strings, so that the matchers    *)
(* are computed character by character as the regular expressions and the  *)
(* index arithmetic of the source compute them.  Positions are 1-based;    *)
(* 0 stands for JavaScript's -1 ("not found").                             *)
(***************************************************************************)
EXTENDS Integers, Sequences, FiniteSets, TLC

\* ------------------------------------------------------------------------
\* String primitives (String.prototype.* as used by the parsers)
\* ------------------------------------------------------------------------

SetMin(S) == CHOOSE x \in S : \A y \in S : x <= y

Take(s, n) == SubSeq(s, 1, n)
Drop(s, n) == SubSeq(s, n + 1, Len(s))

\* s has sub at position i
HasAt(s, sub, i) ==
    /\ i >= 1
    /\ i + Len(sub) - 1 <= Len(s)
    /\ SubSeq(s, i, i + Len(sub) - 1) = sub

\* s.indexOf(sub), 0 when absent
indexOf(s, sub) ==
    LET ps == {i \in 1..Len(s) : HasAt(s, sub, i)}
    IN  IF ps = {} THEN 0 ELSE SetMin(ps)

\* s.lastIndexOf(sub, from): the last occurrence starting at or before from
lastIndexOf(s, sub, from) ==
    LET ps == {i \in 1..Len(s) : i <= from /\ HasAt(s, sub, i)}
    IN  IF ps = {} THEN 0 ELSE CHOOSE i \in ps : \A j \in ps : i >= j

includes(s, sub) == indexOf(s, sub) # 0

\* s.split(sep): non-overlapping occurrences, left to right
RECURSIVE split(_, _)
split(s, sep) ==
    LET i == indexOf(s, sep)
    IN  IF i = 0 THEN <<s>>
        ELSE <<Take(s, i - 1)>> \o split(Drop(s, i + Len(sep) - 1), sep)

\* String.prototype.trim strips white space (space, line feed, tab here)
RECURSIVE trimStart(_)
trimStart(s) ==
    IF s # <<>> /\ Head(s) \in {" ", "\n", "\t"} THEN trimStart(Tail(s)) ELSE s

RECURSIVE trimEnd(_)
trimEnd(s) ==
    IF s # <<>> /\ s[Len(s)] \in {" ", "\n", "\t"} THEN trimEnd(Take(s, Len(s) - 1)) ELSE s

\* s.trim()
trim(s) == trimEnd(trimStart(s))

\* the /i flag: characters compare after case folding (String.prototype
\* .toLowerCase on an ASCII letter)
toLower(c) ==
    LET upper == << "A", "B", "C", "D", "E", "F", "G", "H", "I", "J", "K", "L", "M",
                    "N", "O", "P", "Q", "R", "S", "T", "U", "V", "W", "X", "Y", "Z" >>
        lower == << "a", "b", "c", "d", "e", "f", "g", "h", "i", "j", "k", "l", "m",
                    "n", "o", "p", "q", "r", "s", "t", "u", "v", "w", "x", "y", "z" >>
        ks    == { k \in 1..26 : upper[k] = c }
    IN  IF ks = {} THEN c ELSE lower[CHOOSE k \in ks : TRUE]

NoMatch == [match |-> FALSE]

\* ^lit under /i: what follows the literal at the start of s
AfterCI(s, lit) ==
    IF Len(s) >= Len(lit) /\ \A i \in 1..Len(lit) : toLower(s[i]) = lit[i]
    THEN [match |-> TRUE, rest |-> Drop(s, Len(lit))]
    ELSE NoMatch

\* \d
Digits == {"0", "1", "2", "3", "4", "5", "6", "7", "8", "9"}
\* [a-f0-9] under /i
HexDigits == Digits \cup {"a", "b", "c", "d", "e", "f", "A", "B", "C", "D", "E", "F"}

\* parseInt(ds, 10) on a string of digits
RECURSIVE parseInt(_)
parseInt(ds) ==
    IF ds = <<>> THEN 0
    ELSE 10 * parseInt(Take(ds, Len(ds) - 1))
           + (CHOOSE d \in 0..9 : <<"0", "1", "2", "3", "4", "5", "6", "7", "8", "9">>[d + 1]
                                    = ds[Len(ds)])

\* length of the longest prefix of s made of characters of the class
RECURSIVE Leading(_, _)
Leading(s, class) ==
    IF s # <<>> /\ Head(s) \in class THEN 1 + Leading(Tail(s), class) ELSE 0

\* length of the longest suffix of s made of digits
RECURSIVE TrailingDigits(_)
TrailingDigits(s) ==
    IF s # <<>> /\ s[Len(s)] \in Digits
    THEN 1 + TrailingDigits(Take(s, Len(s) - 1)) ELSE 0

\* (.+)SEP(.+)$ with a greedy first group: the last occurrence of sep that
\* leaves both groups non-empty; 0 when the pattern does not match
GreedySplitAt(s, sep) ==
    LET ps == {i \in 2..Len(s) : HasAt(s, sep, i) /\ i + Len(sep) <= Len(s)}
    IN  IF ps = {} THEN 0 ELSE CHOOSE i \in ps : \A j \in ps : i >= j

Slash == <<"/">>
DotDot == <<".", ".">>

\* const v = ...; F(v): the value is computed once and named in F
With(v, F(_)) == F(v)

\* ^([^<sep1>]+)<sep1>([^<sep2>]+)<sep2> : the non-empty segment before the
\* first sep1, the non-empty segment from there to the next sep2, and the rest
Segments(s, sep1, sep2) ==
    With(indexOf(s, sep1), LAMBDA i1 :
      IF i1 <= 1 THEN NoMatch
      ELSE With(Drop(s, i1), LAMBDA r1 :
           With(indexOf(r1, sep2), LAMBDA i2 :
             IF i2 <= 1 THEN NoMatch
             ELSE [match |-> TRUE,
                   owner |-> Take(s, i1 - 1),
                   repo  |-> Take(r1, i2 - 1),
                   rest  |-> Drop(r1, i2)])))

\* ------------------------------------------------------------------------
\* GitHub matchers
\* ------------------------------------------------------------------------

\* ^https?:\/\/github\.com\/([^/]+)\/([^/]+)\/  -- the head of the four URL
\* patterns
GitHubUrlHead(input) ==
    With(AfterCI(input, <<"h", "t", "t", "p", "s", ":", "/", "/", "g", "i", "t", "h", "u", "b", ".", "c", "o", "m", "/">>), LAMBDA https :  \* "https://github.com/"
      IF https.match THEN Segments(https.rest, Slash, Slash)
      ELSE With(AfterCI(input, <<"h", "t", "t", "p", ":", "/", "/", "g", "i", "t", "h", "u", "b", ".", "c", "o", "m", "/">>), LAMBDA http :  \* "http://github.com/"
             IF http.match THEN Segments(http.rest, Slash, Slash) ELSE NoMatch))

\* <head>pull\/(\d+) : the number and what follows it
PullNumber(input) ==
    With(GitHubUrlHead(input), LAMBDA h :
      IF ~h.match THEN NoMatch
      ELSE With(AfterCI(h.rest, <<"p", "u", "l", "l", "/">>), LAMBDA p :  \* "pull/"
             IF ~p.match THEN NoMatch
             ELSE With(Leading(p.rest, Digits), LAMBDA nd :
                    IF nd = 0 THEN NoMatch
                    ELSE [match |-> TRUE, owner |-> h.owner, repo |-> h.repo,
                          prNumber |-> parseInt(Take(p.rest, nd)),
                          rest |-> Drop(p.rest, nd)])))

\* /^https?:\/\/github\.com\/([^/]+)\/([^/]+)\/pull\/(\d+)(\/.*)?$/i
parseGitHubPRUrl(input) ==
    With(PullNumber(input), LAMBDA m :
      IF ~m.match THEN NoMatch
      ELSE IF m.rest # <<>> /\ Head(m.rest) # "/" THEN NoMatch
      ELSE [match |-> TRUE, owner |-> m.owner, repo |-> m.repo,
            prNumber |-> m.prNumber])

\* /^https?:\/\/github\.com\/([^/]+)\/([^/]+)\/commit\/([a-f0-9]+)$/i
parseGitHubCommitUrl(input) ==
    With(GitHubUrlHead(input), LAMBDA h :
      IF ~h.match THEN NoMatch
      ELSE With(AfterCI(h.rest, <<"c", "o", "m", "m", "i", "t", "/">>), LAMBDA c :  \* "commit/"
             IF ~c.match THEN NoMatch
             ELSE IF c.rest = <<>> \/ Leading(c.rest, HexDigits) # Len(c.rest)
             THEN NoMatch
             ELSE [match |-> TRUE, owner |-> h.owner, repo |-> h.repo,
                   commitSha |-> c.rest]))

\* ([a-f0-9]+)\.\.([a-f0-9]+)$ on what follows "/changes/"
ChangesShas(r3) ==
    With(Leading(r3, HexDigits), LAMBDA nl :
      IF nl = 0 \/ ~HasAt(r3, DotDot, nl + 1) THEN NoMatch
      ELSE With(Drop(r3, nl + Len(DotDot)), LAMBDA r5 :
             IF r5 = <<>> \/ Leading(r5, HexDigits) # Len(r5) THEN NoMatch
             ELSE [match |-> TRUE, leftCommitSha |-> Take(r3, nl),
                   rightCommitSha |-> r5]))

\* /^https?:\/\/github\.com\/([^/]+)\/([^/]+)\/pull\/(\d+)\/changes\/([a-f0-9]+)\.\.([a-f0-9]+)$/i
parseGitHubPRChangesUrl(input) ==
    With(PullNumber(input), LAMBDA m :
      IF ~m.match THEN NoMatch
      ELSE With(AfterCI(m.rest, <<"/", "c", "h", "a", "n", "g", "e", "s", "/">>), LAMBDA c :  \* "/changes/"
             IF ~c.match THEN NoMatch
             ELSE With(ChangesShas(c.rest), LAMBDA shas :
                    IF ~shas.match THEN NoMatch
                    ELSE [match |-> TRUE, owner |-> m.owner, repo |-> m.repo,
                          prNumber |-> m.prNumber,
                          leftCommitSha |-> shas.leftCommitSha,
                          rightCommitSha |-> shas.rightCommitSha])))

\* /^([^:]+):([^:]+):(.+)$/ on the right side of a compare URL
crossForkMatch(rightRef) ==
    With(Segments(rightRef, <<":">>, <<":">>), LAMBDA m :
      IF m.match /\ m.rest # <<>> THEN m ELSE NoMatch)

\* /^([^:]+):([^/]+)\/(.+)$/ on the right side of a compare URL
crossForkSlashMatch(rightRef) ==
    With(Segments(rightRef, <<":">>, Slash), LAMBDA m :
      IF m.match /\ m.rest # <<>> THEN m ELSE NoMatch)

\* the right side of a compare URL: owner:repo:ref, owner:repo/ref or a ref
CompareSides(h, leftRef, rightRef) ==
    With(crossForkMatch(rightRef), LAMBDA cf :
      IF cf.match
      THEN [match |-> TRUE, owner |-> h.owner, repo |-> h.repo,
            leftRef |-> leftRef, rightRef |-> cf.rest,
            rightOwner |-> cf.owner, rightRepo |-> cf.repo]
      ELSE With(crossForkSlashMatch(rightRef), LAMBDA cfs :
             IF cfs.match
             THEN [match |-> TRUE, owner |-> h.owner, repo |-> h.repo,
                   leftRef |-> leftRef, rightRef |-> cfs.rest,
                   rightOwner |-> cfs.owner, rightRepo |-> cfs.repo]
             ELSE [match |-> TRUE, owner |-> h.owner, repo |-> h.repo,
                   leftRef |-> leftRef, rightRef |-> rightRef]))

\* /^https?:\/\/github\.com\/([^/]+)\/([^/]+)\/compare\/(.+)\.\.\.(.+)$/i
parseGitHubCompareUrl(input) ==
    With(GitHubUrlHead(input), LAMBDA h :
      IF ~h.match THEN NoMatch
      ELSE With(AfterCI(h.rest, <<"c", "o", "m", "p", "a", "r", "e", "/">>), LAMBDA c :  \* "compare/"
             IF ~c.match THEN NoMatch
             ELSE With(GreedySplitAt(c.rest, <<".", ".", ".">>), LAMBDA i :  \* "..."
                    IF i = 0 THEN NoMatch
                    ELSE CompareSides(h, Take(c.rest, i - 1),
                                      Drop(c.rest, i + 2)))))

\* ([^/]+)<mark>(\d+)$ : the repo and the number after the owner's slash
RepoNumber(r1, mark) ==
    With(TrailingDigits(r1), LAMBDA nd :
      IF includes(r1, Slash) \/ nd = 0 \/ Len(r1) - nd < 2 THEN NoMatch
      ELSE IF r1[Len(r1) - nd] # mark THEN NoMatch
      ELSE [match |-> TRUE, repo |-> Take(r1, Len(r1) - nd - 1),
            number |-> parseInt(Drop(r1, Len(r1) - nd))])

\* /^<scheme>([^/]+)\/([^/]+)<mark>(\d+)$/i  (mark is # for a PR, ! for an MR)
SchemeNumberRef(input, scheme, mark) ==
    With(AfterCI(input, scheme), LAMBDA s :
      IF ~s.match THEN NoMatch
      ELSE With(indexOf(s.rest, Slash), LAMBDA i1 :
             IF i1 <= 1 THEN NoMatch
             ELSE With(RepoNumber(Drop(s.rest, i1), mark), LAMBDA rn :
                    IF ~rn.match THEN NoMatch
                    ELSE [match |-> TRUE, owner |-> Take(s.rest, i1 - 1),
                          repo |-> rn.repo, number |-> rn.number])))

\* (.+)\.\.(.+)$ : the two sides, trimmed, both non-empty after trimming
TrimmedSides(body) ==
    With(GreedySplitAt(body, DotDot), LAMBDA i :
      IF i = 0 THEN NoMatch
      ELSE With(trim(Take(body, i - 1)), LAMBDA left :
           With(trim(Drop(body, i + Len(DotDot) - 1)), LAMBDA right :
             IF left = <<>> \/ right = <<>> THEN NoMatch
             ELSE [match |-> TRUE, left |-> left, right |-> right])))

\* /^<scheme>([^/]+)\/([^@]+)@(.+)\.\.(.+)$/i, then the trimmed groups must
\* be non-empty
SchemeRefRange(input, scheme) ==
    With(AfterCI(input, scheme), LAMBDA s :
      IF ~s.match THEN NoMatch
      ELSE With(Segments(s.rest, Slash, <<"@">>), LAMBDA h :
             IF ~h.match THEN NoMatch
             ELSE With(TrimmedSides(h.rest), LAMBDA sides :
                    IF ~sides.match THEN NoMatch
                    ELSE [match |-> TRUE, ownerRepo |-> h.owner \o Slash \o h.repo,
                          left |-> sides.left, right |-> sides.right])))

parsePRRef(input) ==
    With(SchemeNumberRef(input, <<"g", "i", "t", "h", "u", "b", ":">>, "#"), LAMBDA m :  \* "github:"
      IF ~m.match THEN NoMatch
      ELSE [match |-> TRUE, owner |-> m.owner, repo |-> m.repo,
            prNumber |-> m.number])

parseGithubRefRange(input) == SchemeRefRange(input, <<"g", "i", "t", "h", "u", "b", ":">>)  \* "github:"

\* parseGitHubPRUrl(s) ?? parsePRRef(s)
parsePRSide(s) ==
    With(parseGitHubPRUrl(s), LAMBDA u : IF u.match THEN u ELSE parsePRRef(s))

parsePRRange(input) ==
    IF ~includes(input, DotDot) THEN NoMatch
    ELSE With(split(input, DotDot), LAMBDA parts :
           IF Len(parts) # 2 THEN NoMatch
           ELSE With(parsePRSide(trim(parts[1])), LAMBDA left :
                With(parsePRSide(trim(parts[2])), LAMBDA right :
                  IF ~left.match \/ ~right.match THEN NoMatch
                  ELSE [match |-> TRUE, left |-> left, right |-> right])))

\* ------------------------------------------------------------------------
\* GitLab matchers
\* ------------------------------------------------------------------------

parseMRRef(input) ==
    With(SchemeNumberRef(input, <<"g", "i", "t", "l", "a", "b", ":">>, "!"), LAMBDA m :  \* "gitlab:"
      IF ~m.match THEN NoMatch
      ELSE [match |-> TRUE, owner |-> m.owner, repo |-> m.repo,
            mrNumber |-> m.number])

parseGitlabRefRange(input) == SchemeRefRange(input, <<"g", "i", "t", "l", "a", "b", ":">>)  \* "gitlab:"

\* ------------------------------------------------------------------------
\* Git URL, remote and local range matchers
\* ------------------------------------------------------------------------

\* s.includes("://") || (s.includes("@") && s.includes(":"))
isGitUrl(s) == includes(s, <<":", "/", "/">>) \/ (includes(s, <<"@">>) /\ includes(s, <<":">>))  \* "://"

\* a side of the first form, url@ref cut at its last "@"
UrlAtRef(part) ==
    With(lastIndexOf(part, <<"@">>, Len(part)), LAMBDA lastAt :
      IF lastAt = 0 THEN NoMatch
      ELSE [match |-> TRUE, url |-> Take(part, lastAt - 1), ref |-> Drop(part, lastAt)])

\* first form: url@ref..url@ref, cut at the first ".."
GitUrlTwoSides(input, doubleDotIndex) ==
    IF doubleDotIndex = 0 THEN NoMatch
    ELSE With(UrlAtRef(Take(input, doubleDotIndex - 1)), LAMBDA l :
         With(UrlAtRef(Drop(input, doubleDotIndex + 1)), LAMBDA r :
           IF ~l.match \/ ~r.match THEN NoMatch
           ELSE IF ~isGitUrl(l.url) \/ ~isGitUrl(r.url) THEN NoMatch
           ELSE [match |-> TRUE, leftUrl |-> l.url, leftRef |-> l.ref,
                 rightUrl |-> r.url, rightRef |-> r.ref]))

\* second form: url@left..right, cut at the last "@" at or before the first
\* ".." (lastIndexOf clamps the fromIndex -1 to the first position)
GitUrlOneUrl(input, doubleDotIndex) ==
    With(lastIndexOf(input, <<"@">>, IF doubleDotIndex = 0 THEN 1 ELSE doubleDotIndex),
         LAMBDA atBeforeDoubleDot :
      IF atBeforeDoubleDot = 0 \/ ~includes(input, DotDot) THEN NoMatch
      ELSE With(split(Drop(input, atBeforeDoubleDot), DotDot), LAMBDA parts :
             IF Len(parts) # 2 \/ ~isGitUrl(Take(input, atBeforeDoubleDot - 1))
             THEN NoMatch
             ELSE [match |-> TRUE,
                   leftUrl |-> Take(input, atBeforeDoubleDot - 1), leftRef |-> parts[1],
                   rightUrl |-> Take(input, atBeforeDoubleDot - 1),
                   rightRef |-> parts[2]]))

parseGitUrlRange(input) ==
    With(indexOf(input, DotDot), LAMBDA doubleDotIndex :
      With(GitUrlTwoSides(input, doubleDotIndex), LAMBDA both :
        IF both.match THEN both ELSE GitUrlOneUrl(input, doubleDotIndex)))

\* value.match(/^([^/]+)\/([^@]+)@(.+)$/), then the trimmed groups must be
\* non-empty
parseRemoteSide(value) ==
    With(Segments(value, Slash, <<"@">>), LAMBDA m :
      IF ~m.match THEN NoMatch
      ELSE IF m.rest = <<>> THEN NoMatch
      ELSE With(trim(m.owner), LAMBDA owner :
           With(trim(m.repo), LAMBDA repo :
           With(trim(m.rest), LAMBDA ref :
             IF owner = <<>> \/ repo = <<>> \/ ref = <<>> THEN NoMatch
             ELSE [match |-> TRUE, owner |-> owner, repo |-> repo, ref |-> ref]))))

\* the two sides once both are non-empty
RemoteSides(leftPart, rightPart) ==
    With(parseRemoteSide(leftPart), LAMBDA left :
      IF ~left.match THEN NoMatch
      ELSE With(left.owner \o Slash \o left.repo, LAMBDA ownerRepo :
           With(parseRemoteSide(rightPart), LAMBDA rightFull :
             IF rightFull.match
             THEN IF rightFull.owner # left.owner \/ rightFull.repo # left.repo
                  THEN NoMatch
                  ELSE [match |-> TRUE,
                        left |-> ownerRepo \o <<"@">> \o left.ref,
                        right |-> rightFull.owner \o Slash \o rightFull.repo
                                    \o <<"@">> \o rightFull.ref,
                        ownerRepo |-> ownerRepo]
             ELSE [match |-> TRUE,
                   left |-> ownerRepo \o <<"@">> \o left.ref,
                   right |-> ownerRepo \o <<"@">> \o rightPart,
                   ownerRepo |-> ownerRepo])))

parseRemoteRefRange(input) ==
    With(indexOf(input, DotDot), LAMBDA separatorIndex :
      IF separatorIndex = 0 THEN NoMatch
      ELSE With(trim(Take(input, separatorIndex - 1)), LAMBDA leftPart :
           With(trim(Drop(input, separatorIndex + 1)), LAMBDA rightPart :
             IF leftPart = <<>> \/ rightPart = <<>> THEN NoMatch
             ELSE RemoteSides(leftPart, rightPart))))

parseLocalRefRange(input) ==
    With(split(input, DotDot), LAMBDA parts :
      IF Len(parts) # 2 THEN NoMatch
      ELSE IF parts[1] = <<>> \/ parts[2] = <<>> THEN NoMatch
      ELSE [match |-> TRUE, left |-> trim(parts[1]), right |-> trim(parts[2])])

\* ------------------------------------------------------------------------
\* parseRangeInput
\* ------------------------------------------------------------------------

Empty == <<>>

INVALID_INPUT == 2
GIT_ERROR == 3

\* a message is a sequence of fragments: literal text or an interpolated value
Lit(s) == [lit |-> s]
Val(v) == [val |-> v]

\* the bullet list of the InvalidInput message, one entry per line
SupportedFormats ==
    << Lit("Local refs"), Lit("Remote refs"), Lit("Git URL"), Lit("Git URL (HTTPS)"),
       Lit("GitHub refs"), Lit("GitHub PR ref"), Lit("GitHub PR range"),
       Lit("GitHub PR URL"), Lit("PR URL range"), Lit("GitHub commit URL"),
       Lit("GitHub PR changes URL"), Lit("GitHub compare URL"),
       Lit("Cross-fork compare"), Lit("GitLab refs"), Lit("GitLab MR ref") >>

PrRangeOf(m) ==
    [kind |-> "range", type |-> "pr-range", left |-> Empty, right |-> Empty,
     leftPr |-> [owner |-> m.left.owner, repo |-> m.left.repo,
                 prNumber |-> m.left.prNumber],
     rightPr |-> [owner |-> m.right.owner, repo |-> m.right.repo,
                  prNumber |-> m.right.prNumber]]

GitUrlRangeOf(m) ==
    [kind |-> "range", type |-> "git-url-range", left |-> m.leftRef, right |-> m.rightRef,
     leftGitUrl |-> m.leftUrl, rightGitUrl |-> m.rightUrl]

\* rightOwner / rightRepo are present only for the cross-fork syntax
CompareUrlOf(m) ==
    LET base == [kind |-> "range", type |-> "github-compare-url",
                 left |-> Empty, right |-> Empty,
                 ownerRepo |-> m.owner \o Slash \o m.repo,
                 leftRef |-> m.leftRef, rightRef |-> m.rightRef]
    IN  IF "rightOwner" \in DOMAIN m
        THEN [f \in DOMAIN base \cup {"rightOwner", "rightRepo"} |->
                IF f \in DOMAIN base THEN base[f] ELSE m[f]]
        ELSE base

PrChangesUrlOf(m) ==
    [kind |-> "range", type |-> "github-pr-changes-url", left |-> Empty, right |-> Empty,
     ownerRepo |-> m.owner \o Slash \o m.repo, prNumber |-> m.prNumber,
     leftCommitSha |-> m.leftCommitSha, rightCommitSha |-> m.rightCommitSha]

PrUrlOf(m) ==
    [kind |-> "range", type |-> "github-url", left |-> Empty, right |-> Empty,
     ownerRepo |-> m.owner \o Slash \o m.repo, prNumber |-> m.prNumber]

CommitUrlOf(m) ==
    [kind |-> "range", type |-> "github-commit-url", left |-> Empty, right |-> Empty,
     ownerRepo |-> m.owner \o Slash \o m.repo, commitSha |-> m.commitSha]

ShorthandRangeOf(m, host) ==
    [kind |-> "range", type |-> "git-url-range", left |-> m.left, right |-> m.right,
     leftGitUrl |-> host \o m.ownerRepo \o <<".", "g", "i", "t">>,  \* ".git"
     rightGitUrl |-> host \o m.ownerRepo \o <<".", "g", "i", "t">>]  \* ".git"

PrRefOf(m) ==
    [kind |-> "range", type |-> "pr-ref", left |-> Empty, right |-> Empty,
     ownerRepo |-> m.owner \o Slash \o m.repo, prNumber |-> m.prNumber]

MrRefOf(m) ==
    [kind |-> "range", type |-> "gitlab-mr-ref", left |-> Empty, right |-> Empty,
     ownerRepo |-> m.owner \o Slash \o m.repo, prNumber |-> m.mrNumber]

RemoteRangeOf(m) ==
    [kind |-> "range", type |-> "remote-range", left |-> m.left, right |-> m.right,
     ownerRepo |-> m.ownerRepo]

LocalRangeOf(m) ==
    [kind |-> "range", type |-> "local-range", left |-> m.left, right |-> m.right]

\* new DiffxError(message, exitCode)
DiffxError(message, exitCode) ==
    [kind |-> "error", exitCode |-> exitCode, message |-> message]

\* the error without the original string and the list of formats
InvalidRangeErrorBare(input) ==
    DiffxError(<<Lit("Invalid range or URL")>>, INVALID_INPUT)

InvalidRangeError(input) ==
    DiffxError(<<Lit("Invalid range or URL: "), Val(input), Lit("Supported formats:")>>
                 \o SupportedFormats,
               INVALID_INPUT)

\* const m = matcher(input); if (m) return { ... }; otherwise the next one
Accept(m, RangeOf(_), otherwise) == IF m.match THEN RangeOf(m) ELSE otherwise

\* the generic ".." matchers tried before the specific ones
parseRangeInputGenericFirst(input) ==
    Accept(parseRemoteRefRange(input), RemoteRangeOf,
    Accept(parseLocalRefRange(input), LocalRangeOf,
    Accept(parsePRRange(input), PrRangeOf,
    Accept(parseGitUrlRange(input), GitUrlRangeOf,
    Accept(parseGitHubCompareUrl(input), CompareUrlOf,
    Accept(parseGitHubPRChangesUrl(input), PrChangesUrlOf,
    Accept(parseGitHubPRUrl(input), PrUrlOf,
    Accept(parseGitHubCommitUrl(input), CommitUrlOf,
    Accept(parseGithubRefRange(input),
           LAMBDA m : ShorthandRangeOf(m, <<"g", "i", "t", "@", "g", "i", "t", "h", "u", "b", ".", "c", "o", "m", ":">>),  \* "git@github.com:"
    Accept(parseGitlabRefRange(input),
           LAMBDA m : ShorthandRangeOf(m, <<"g", "i", "t", "@", "g", "i", "t", "l", "a", "b", ".", "c", "o", "m", ":">>),  \* "git@gitlab.com:"
    Accept(parsePRRef(input), PrRefOf,
    Accept(parseMRRef(input), MrRefOf,
    InvalidRangeError(input)))))))))))))

\* an input the remote-range and the local-range matcher both accept is
\* rejected instead of going to the first of them
parseRangeInputRejectOverlap(input) ==
    IF parseRemoteRefRange(input).match /\ parseLocalRefRange(input).match
    THEN InvalidRangeError(input)
    ELSE
    Accept(parsePRRange(input), PrRangeOf,
    Accept(parseGitUrlRange(input), GitUrlRangeOf,
    Accept(parseGitHubCompareUrl(input), CompareUrlOf,
    Accept(parseGitHubPRChangesUrl(input), PrChangesUrlOf,
    Accept(parseGitHubPRUrl(input), PrUrlOf,
    Accept(parseGitHubCommitUrl(input), CommitUrlOf,
    Accept(parseGithubRefRange(input),
           LAMBDA m : ShorthandRangeOf(m, <<"g", "i", "t", "@", "g", "i", "t", "h", "u", "b", ".", "c", "o", "m", ":">>),  \* "git@github.com:"
    Accept(parseGitlabRefRange(input),
           LAMBDA m : ShorthandRangeOf(m, <<"g", "i", "t", "@", "g", "i", "t", "l", "a", "b", ".", "c", "o", "m", ":">>),  \* "git@gitlab.com:"
    Accept(parsePRRef(input), PrRefOf,
    Accept(parseMRRef(input), MrRefOf,
    Accept(parseRemoteRefRange(input), RemoteRangeOf,
    Accept(parseLocalRefRange(input), LocalRangeOf,
    InvalidRangeError(input)))))))))))))

parseRangeInput(input) ==
    Accept(parsePRRange(input), PrRangeOf,
    Accept(parseGitUrlRange(input), GitUrlRangeOf,
    Accept(parseGitHubCompareUrl(input), CompareUrlOf,
    Accept(parseGitHubPRChangesUrl(input), PrChangesUrlOf,
    Accept(parseGitHubPRUrl(input), PrUrlOf,
    Accept(parseGitHubCommitUrl(input), CommitUrlOf,
    Accept(parseGithubRefRange(input),
           LAMBDA m : ShorthandRangeOf(m, <<"g", "i", "t", "@", "g", "i", "t", "h", "u", "b", ".", "c", "o", "m", ":">>),  \* "git@github.com:"
    Accept(parseGitlabRefRange(input),
           LAMBDA m : ShorthandRangeOf(m, <<"g", "i", "t", "@", "g", "i", "t", "l", "a", "b", ".", "c", "o", "m", ":">>),  \* "git@gitlab.com:"
    Accept(parsePRRef(input), PrRefOf,
    Accept(parseMRRef(input), MrRefOf,
    Accept(parseRemoteRefRange(input), RemoteRangeOf,
    Accept(parseLocalRefRange(input), LocalRangeOf,
    InvalidRangeError(input)))))))))))))

\* ------------------------------------------------------------------------
\* Inputs of the parser: every concatenation of at most MaxPieces pieces
\* ------------------------------------------------------------------------

MaxPieces == 3

Pieces ==
    { <<"h", "t", "t", "p", "s", ":", "/", "/", "g", "i", "t", "h", "u", "b", ".", "c", "o", "m", "/", "o", "/", "r", "/", "p", "u", "l", "l", "/", "1">>,  \* "https://github.com/o/r/pull/1"
      <<"g", "i", "t", "h", "u", "b", ":", "o", "/", "r", "#", "2">>,  \* "github:o/r#2"
      <<".", ".">>,
      <<".">>,
      <<"o", "/", "r", "@", "a", "b">>,  \* "o/r@ab"
      <<"c", "/", "d", "@", "a", "b">>,  \* "c/d@ab"
      <<"g", "i", "t", "@", "h", ":", "p", "@", "a", "b">>,  \* "git@h:p@ab"
      <<"a", "b">>,
      <<"h", "t", "t", "p", "s", ":", "/", "/", "g", "i", "t", "h", "u", "b", ".", "c", "o", "m", "/", "o", "/", "r", "/", "c", "o", "m", "p", "a", "r", "e", "/", "a", "b", ".">>,  \* "https://github.com/o/r/compare/ab."
      <<"h", "t", "t", "p", "s", ":", "/", "/", "g", "i", "t", "h", "u", "b", ".", "c", "o", "m", "/", "o", "/", "r", "/", "c", "o", "m", "m", "i", "t", "/", "a", "b">>,  \* "https://github.com/o/r/commit/ab"
      <<"h", "t", "t", "p", "s", ":", "/", "/", "g", "i", "t", "h", "u", "b", ".", "c", "o", "m", "/", "o", "/", "r", "/", "p", "u", "l", "l", "/", "1", "/", "c", "h", "a", "n", "g", "e", "s", "/", "a", "b">>,  \* "https://github.com/o/r/pull/1/changes/ab"
      <<"G", "i", "t", "L", "a", "b", ":", "o", "/", "r", "!", "3">>,  \* "GitLab:o/r!3"
      <<"g", "i", "t", "h", "u", "b", ":", "o", "/", "r", "@", "a", "b">>,  \* "github:o/r@ab"
      <<"g", "i", "t", "l", "a", "b", ":", "o", "/", "r", "@", "a", "b">>,  \* "gitlab:o/r@ab"
      <<"x", ":", "y", ":", "a", "b">>,  \* "x:y:ab"
      <<" ">> }

RECURSIVE Concat(_)
Concat(ps) == IF ps = <<>> THEN <<>> ELSE Head(ps) \o Concat(Tail(ps))

ParserInputs ==
    { Concat(ps) : ps \in UNION { [1..n -> Pieces] : n \in 0..MaxPieces } }

\* ------------------------------------------------------------------------
\* Temp ref namespace (createTempRefPrefix) and string formatting
\* ------------------------------------------------------------------------

Base36Digits ==
    << "0", "1", "2", "3", "4", "5", "6", "7", "8", "9", "a", "b", "c", "d", "e", "f",
       "g", "h", "i", "j", "k", "l", "m", "n", "o", "p", "q", "r", "s", "t", "u", "v",
       "w", "x", "y", "z" >>

\* Number.prototype.toString(radix) for a non-negative integer
RECURSIVE toStringRadix(_, _)
toStringRadix(n, radix) ==
    IF n < radix THEN <<Base36Digits[n + 1]>>
    ELSE toStringRadix(n \div radix, radix) \o <<Base36Digits[(n % radix) + 1]>>

\* Buffer.toString("hex"): two hex digits per byte
RECURSIVE toHex(_)
toHex(bytes) ==
    IF bytes = <<>> THEN <<>>
    ELSE << Base36Digits[(Head(bytes) \div 16) + 1], Base36Digits[(Head(bytes) % 16) + 1] >>
         \o toHex(Tail(bytes))

TempRoot == <<"r", "e", "f", "s", "/", "d", "i", "f", "f", "x", "/", "t", "m", "p", "/">>  \* "refs/diffx/tmp/"

\* a prefix without the random part
createTempRefPrefixTimeOnly(now, bytes) == TempRoot \o toStringRadix(now, 36)

\* now is Date.now(), bytes is crypto.randomBytes(8)
createTempRefPrefix(now, bytes) ==
    TempRoot \o toStringRadix(now, 36) \o <<"-">> \o toHex(bytes)

buildGitHubUrl(owner, repo) == <<"h", "t", "t", "p", "s", ":", "/", "/", "g", "i", "t", "h", "u", "b", ".", "c", "o", "m", "/">> \o owner \o Slash \o repo \o <<".", "g", "i", "t">>  \* "https://github.com/", ".git"

\* ref.replace(/^refs\/(heads|tags)\//, "")
normalizeRef(ref) ==
    IF HasAt(ref, <<"r", "e", "f", "s", "/", "h", "e", "a", "d", "s", "/">>, 1) THEN Drop(ref, Len(<<"r", "e", "f", "s", "/", "h", "e", "a", "d", "s", "/">>))  \* "refs/heads/", "refs/heads/"
    ELSE IF HasAt(ref, <<"r", "e", "f", "s", "/", "t", "a", "g", "s", "/">>, 1) THEN Drop(ref, Len(<<"r", "e", "f", "s", "/", "t", "a", "g", "s", "/">>))  \* "refs/tags/", "refs/tags/"
    ELSE ref

\* ------------------------------------------------------------------------
\* State of one invocation
\* ------------------------------------------------------------------------

VARIABLES
    input,       \* the range argument (rangeOrUrl)
    parsed,      \* what parseRangeInput returned or raised
    pc,          \* position of the invocation
    entry,       \* "parse" | "run" | "passthrough" | "resolver"
    env,         \* the command line's options and what git reports about the repository
    peer,        \* another invocation at work in the same repository
    callee,      \* the resolver function in charge
    range,       \* the RefRange handed to the resolver
    tempPrefix,  \* the prefix the resolver generated, Empty before
    loc,         \* the resolver's locals
    repoRefs,    \* the local repository's ref database (names)
    fetchLog,    \* calls of gitClient.fetchFromUrl, in order
    mbLog,       \* results of gitClient.mergeBase, in order
    deleteLog,   \* calls of gitClient.deleteRefs, in order
    resolved,    \* the ResolvedRefs the caller holds
    output,      \* "none" | "ok" | "failed"
    pending,     \* completion of the try block, delivered after the finally
    cleanupLog,  \* one entry per call of the cleanup callback
    outcome      \* how the invocation (or the resolver call) ended

parseVars == <<input, parsed>>
gitVars == <<repoRefs, fetchLog, mbLog, deleteLog>>
resVars == <<callee, range, tempPrefix, loc>>

vars == <<input, parsed, pc, entry, env, peer, callee, range, tempPrefix, loc, repoRefs,
          fetchLog, mbLog, deleteLog, resolved, output, pending, cleanupLog, outcome>>

\* no other invocation, or one that has not begun: its position, its temp
\* prefix, the refs it fetched into and the refs it deleted
PeerIdle == [pc |-> "start", prefix |-> <<>>, wrote |-> {}, gone |-> {}]

\* undefined: nothing parsed, no range, no resolved refs yet
None == [kind |-> "none"]
Running == [kind |-> "running"]
Succeeded == [kind |-> "ok"]

\* what the command line holds besides the range argument: active --include /
\* --exclude filters, --overview, --mode, a git output format flag among the
\* git arguments, --index, and any git argument or pathspec at all
Options(filters, overview, mode, formatFlag, index, extraArgs) ==
    [filters |-> filters, overview |-> overview, mode |-> mode,
     formatFlag |-> formatFlag, index |-> index, extraArgs |-> extraArgs]

PlainOptions == Options(FALSE, FALSE, FALSE, FALSE, FALSE, FALSE)
FilterOptions == Options(TRUE, FALSE, FALSE, FALSE, FALSE, FALSE)

\* the options with a clean worktree and no remote
Env(opts) == [opts |-> opts, dirty |-> FALSE, remotes |-> <<>>, heads |-> <<>>]

shouldUseGitPassThrough(o, hasRange) ==
    IF o.filters THEN FALSE
    ELSE IF o.overview THEN FALSE
    ELSE IF o.mode THEN FALSE
    ELSE IF o.formatFlag THEN TRUE
    ELSE IF o.index THEN TRUE
    ELSE IF hasRange THEN TRUE
    ELSE o.extraArgs

\* branches and tags of the caller that exist before the invocation
CallerRefs == { <<"r", "e", "f", "s", "/", "h", "e", "a", "d", "s", "/", "m", "a", "i", "n">>, <<"r", "e", "f", "s", "/", "t", "a", "g", "s", "/", "v", "1">> }  \* "refs/heads/main", "refs/tags/v1"

\* ambient sources read by createTempRefPrefix
NowValues == {46655, 46656}
RandomBytes == { <<0, 1, 35, 69, 103, 137, 171, 205>>,
                 <<255, 254, 16, 50, 84, 118, 152, 186>> }

\* fields of a RefRange: absent and empty are both falsy
Has(r, f) == f \in DOMAIN r /\ r[f] # Empty

\* const [owner, repo] = ownerRepo.split("/"); undefined is Empty here
SplitOwnerRepo(ownerRepo) ==
    LET parts == split(ownerRepo, Slash)
    IN  [owner |-> parts[1], repo |-> IF Len(parts) >= 2 THEN parts[2] ELSE Empty]

Refspec(src, dst) == [src |-> src, dst |-> dst]

RECURSIVE SeqToSet(_)
SeqToSet(s) == IF s = <<>> THEN {} ELSE {Head(s)} \cup SeqToSet(Tail(s))

Dsts(refspecs) == { refspecs[i].dst : i \in 1..Len(refspecs) }

\* gitClient.fetchFromUrl(url, refspecs, depth): git fetch updates every
\* destination ref when it succeeds and none when it fails
FetchFromUrl(url, refspecs, depth, ok) ==
    /\ fetchLog' = Append(fetchLog, [url |-> url, refspecs |-> refspecs,
                                     depth |-> depth, ok |-> ok])
    /\ repoRefs' = IF ok THEN repoRefs \cup Dsts(refspecs) ELSE repoRefs

\* the message of the error git raised
FetchFailure == <<Lit("fetch failed")>>

\* the resolver returns { left, right, cleanup }
ResolverReturns(left, right, cleanupRefs) ==
    /\ resolved' = [kind |-> "refs", left |-> left, right |-> right,
                    cleanup |-> TRUE, cleanupRefs |-> cleanupRefs]
    /\ pc' = IF entry = "resolver" THEN "done" ELSE "output"
    /\ outcome' = IF entry = "resolver" THEN Succeeded ELSE outcome

\* the resolver throws: resolveRefs is awaited outside any try of the callers,
\* so the error ends the invocation
ResolverThrows(err) ==
    /\ resolved' = resolved
    /\ pc' = "done"
    /\ outcome' = err

\* catch (error) { throw new DiffxError(`<head>${error.message}`, GIT_ERROR) }
Wrapped(head, message) == DiffxError(<<Lit(head)>> \o message, GIT_ERROR)

\* ------------------------------------------------------------------------
\* Entry points
\* ------------------------------------------------------------------------

\* range arguments given on the command line
CliInputs ==
    { <<"m", "a", "i", "n", ".", ".", "v", "1">>,  \* "main..v1"
      <<"r", "e", "f", "s", "/", "h", "e", "a", "d", "s", "/", "m", "a", "i", "n", ".", ".", "v", "1">>,  \* "refs/heads/main..v1"
      <<"m", "a", "i", "n", ".", ".", "a", "b">>,  \* "main..ab"
      <<"a", "b", ".", ".", "m", "a", "i", "n">>,  \* "ab..main"
      <<"a", "b">>,
      <<"o", "/", "r", "@", "a", "b", ".", ".", "a", "b">>,  \* "o/r@ab..ab"
      <<"g", "i", "t", "@", "h", ":", "p", "@", "a", "b", ".", ".", "a", "b">>,  \* "git@h:p@ab..ab"
      <<"g", "i", "t", "@", "h", ":", "p", "@", "a", "b", ".", ".", "g", "i", "t", "@", "h", ":", "q", "@", "a", "b">>,  \* "git@h:p@ab..git@h:q@ab"
      <<"g", "i", "t", "h", "u", "b", ":", "o", "/", "r", "@", "a", "b", ".", ".", "a", "b">>,  \* "github:o/r@ab..ab"
      <<"h", "t", "t", "p", "s", ":", "/", "/", "g", "i", "t", "h", "u", "b", ".", "c", "o", "m", "/", "o", "/", "r", "/", "p", "u", "l", "l", "/", "1">>,  \* "https://github.com/o/r/pull/1"
      <<"g", "i", "t", "h", "u", "b", ":", "o", "/", "r", "#", "2">>,  \* "github:o/r#2"
      <<"g", "i", "t", "l", "a", "b", ":", "o", "/", "r", "!", "3">>,  \* "gitlab:o/r!3"
      <<"h", "t", "t", "p", "s", ":", "/", "/", "g", "i", "t", "h", "u", "b", ".", "c", "o", "m", "/", "o", "/", "r", "/", "p", "u", "l", "l", "/", "1", ".", ".", "g", "i", "t", "h", "u", "b", ":", "o", "/", "r", "#", "2">>,  \* "https://github.com/o/r/pull/1..github:o/r#2"
      <<"h", "t", "t", "p", "s", ":", "/", "/", "g", "i", "t", "h", "u", "b", ".", "c", "o", "m", "/", "o", "/", "r", "/", "c", "o", "m", "m", "i", "t", "/", "a", "b">>,  \* "https://github.com/o/r/commit/ab"
      <<"h", "t", "t", "p", "s", ":", "/", "/", "g", "i", "t", "h", "u", "b", ".", "c", "o", "m", "/", "o", "/", "r", "/", "p", "u", "l", "l", "/", "1", "/", "c", "h", "a", "n", "g", "e", "s", "/", "a", "b", ".", ".", "c", "d">>,  \* "https://github.com/o/r/pull/1/changes/ab..cd"
      <<"h", "t", "t", "p", "s", ":", "/", "/", "g", "i", "t", "h", "u", "b", ".", "c", "o", "m", "/", "o", "/", "r", "/", "c", "o", "m", "p", "a", "r", "e", "/", "a", "b", ".", ".", ".", "c", "d">>,  \* "https://github.com/o/r/compare/ab...cd"
      <<"h", "t", "t", "p", "s", ":", "/", "/", "g", "i", "t", "h", "u", "b", ".", "c", "o", "m", "/", "o", "/", "r", "/", "c", "o", "m", "p", "a", "r", "e", "/", "a", "b", "c", "d", "e", "f", "1", ".", ".", ".", "x", ":", "y", ":", "c", "d">>,  \* "https://github.com/o/r/compare/abcdef1...x:y:cd"
      <<"h", "t", "t", "p", "s", ":", "/", "/", "g", "i", "t", "h", "u", "b", ".", "c", "o", "m", "/", "o", "/", "r", "/", "c", "o", "m", "p", "a", "r", "e", "/", "a", "b", ".", ".", ".", "x", ":", "y", "/", "c", "d">> }  \* "https://github.com/o/r/compare/ab...x:y/cd"

\* resolvers called directly (as the library's callers and the tests do), with
\* ranges the parser would not produce
DirectCalls ==
    { [callee |-> "resolvePRRefs",
       range |-> [kind |-> "range", type |-> "pr-ref", left |-> Empty, right |-> Empty,
                  ownerRepo |-> o, prNumber |-> 7]] : o \in {<<"i", "n", "v", "a", "l", "i", "d">>, <<"/", "r">>, <<"o", "/">>} }  \* "invalid"
    \cup
    { [callee |-> "resolvePRRefs",
       range |-> [kind |-> "range", type |-> "pr-ref", left |-> Empty, right |-> Empty,
                  ownerRepo |-> <<"o", "/", "r">>]],  \* "o/r"
      [callee |-> "resolveGitLabMRRefs",
       range |-> [kind |-> "range", type |-> "gitlab-mr-ref", left |-> Empty,
                  right |-> Empty, ownerRepo |-> <<"i", "n", "v", "a", "l", "i", "d">>, prNumber |-> 7]],  \* "invalid"
      [callee |-> "resolveGitLabMRRefs",
       range |-> [kind |-> "range", type |-> "gitlab-mr-ref", left |-> Empty,
                  right |-> Empty, ownerRepo |-> <<"o", "/", "r">>]],  \* "o/r"
      [callee |-> "resolveGitHubCommitRefs",
       range |-> [kind |-> "range", type |-> "github-commit-url", left |-> Empty,
                  right |-> Empty, ownerRepo |-> <<"o", "/">>, commitSha |-> <<"a", "b">>]],
      [callee |-> "resolveGitHubCommitRefs",
       range |-> [kind |-> "range", type |-> "github-commit-url", left |-> Empty,
                  right |-> Empty, ownerRepo |-> <<"o", "/", "r">>]],  \* "o/r"
      [callee |-> "resolveGitHubPRChangesRefs",
       range |-> [kind |-> "range", type |-> "github-pr-changes-url", left |-> Empty,
                  right |-> Empty, ownerRepo |-> <<"/", "r">>, prNumber |-> 7,
                  leftCommitSha |-> <<"a", "b">>, rightCommitSha |-> <<"a", "b">>]],
      [callee |-> "resolveGitHubPRChangesRefs",
       range |-> [kind |-> "range", type |-> "github-pr-changes-url", left |-> Empty,
                  right |-> Empty, ownerRepo |-> <<"o", "/", "r">>, prNumber |-> 0,  \* "o/r"
                  leftCommitSha |-> <<"a", "b">>, rightCommitSha |-> <<"a", "b">>]],
      [callee |-> "resolveGitHubCompareRefs",
       range |-> [kind |-> "range", type |-> "github-compare-url", left |-> Empty,
                  right |-> Empty, ownerRepo |-> <<"i", "n", "v", "a", "l", "i", "d">>,  \* "invalid"
                  leftRef |-> <<"a", "b">>, rightRef |-> <<"a", "b">>]],
      [callee |-> "resolveGitHubCompareRefs",
       range |-> [kind |-> "range", type |-> "github-compare-url", left |-> Empty,
                  right |-> Empty, ownerRepo |-> <<"o", "/", "r">>, leftRef |-> <<"a", "b">>]],  \* "o/r"
      [callee |-> "resolvePRRangeRefs",
       range |-> [kind |-> "range", type |-> "pr-range", left |-> Empty, right |-> Empty,
                  leftPr |-> [owner |-> <<"o">>, repo |-> <<"r">>, prNumber |-> 1]]],
      [callee |-> "resolveRemoteRefs",
       range |-> [kind |-> "range", type |-> "remote-range", left |-> <<"o", "/", "@", "a", "b">>,  \* "o/@ab"
                  right |-> <<"o", "/", "@", "a", "b">>, ownerRepo |-> <<"o", "/">>]],  \* "o/@ab"
      [callee |-> "resolveRemoteRefs",
       range |-> [kind |-> "range", type |-> "remote-range", left |-> <<"/", "r", "@", "a", "b">>,  \* "/r@ab"
                  right |-> <<"/", "r", "@", "a", "b">>, ownerRepo |-> <<"/", "r">>]],  \* "/r@ab"
      [callee |-> "resolveRemoteRefs",
       range |-> [kind |-> "range", type |-> "remote-range", left |-> <<"a", "b">>,
                  right |-> <<"o", "/", "r", "@", "a", "b">>, ownerRepo |-> <<"o", "/", "r">>]],  \* "o/r@ab", "o/r"
      [callee |-> "resolveRemoteRefs",
       range |-> [kind |-> "range", type |-> "local-range", left |-> <<"a", "b">>,
                  right |-> <<"a", "b">>]],
      [callee |-> "resolveGitUrlRefs",
       range |-> [kind |-> "range", type |-> "local-range", left |-> <<"a", "b">>,
                  right |-> <<"a", "b">>]],
      [callee |-> "resolveLocalRefs",
       range |-> [kind |-> "range", type |-> "remote-range", left |-> <<"o", "/", "r", "@", "a", "b">>,  \* "o/r@ab"
                  right |-> <<"o", "/", "r", "@", "a", "b">>, ownerRepo |-> <<"o", "/", "r">>]],  \* "o/r@ab", "o/r"
      [callee |-> "resolveRemoteRefs",
       range |-> [kind |-> "range", type |-> "remote-range", left |-> <<"o", "/", "r", "@", "a", "b">>,  \* "o/r@ab"
                  right |-> <<"o", "/", "r", "@", "c", "d">>, ownerRepo |-> <<"o", "/", "r">>]] }  \* "o/r@cd", "o/r"
    \cup
    \* ranges as the parser produces them
    { [callee |-> "resolvePRRefs",
       range |-> [kind |-> "range", type |-> "pr-ref", left |-> Empty, right |-> Empty,
                  ownerRepo |-> <<"o", "/", "r">>, prNumber |-> 7]],  \* "o/r"
      [callee |-> "resolveGitLabMRRefs",
       range |-> [kind |-> "range", type |-> "gitlab-mr-ref", left |-> Empty,
                  right |-> Empty, ownerRepo |-> <<"o", "/", "r">>, prNumber |-> 7]],  \* "o/r"
      [callee |-> "resolveGitHubCommitRefs",
       range |-> [kind |-> "range", type |-> "github-commit-url", left |-> Empty,
                  right |-> Empty, ownerRepo |-> <<"o", "/", "r">>, commitSha |-> <<"a", "b", "c", "d", "e", "f", "1">>]],  \* "o/r", "abcdef1"
      [callee |-> "resolveGitHubPRChangesRefs",
       range |-> [kind |-> "range", type |-> "github-pr-changes-url", left |-> Empty,
                  right |-> Empty, ownerRepo |-> <<"o", "/", "r">>, prNumber |-> 7,  \* "o/r"
                  leftCommitSha |-> <<"a", "b">>, rightCommitSha |-> <<"c", "d">>]],
      [callee |-> "resolveGitHubCompareRefs",
       range |-> [kind |-> "range", type |-> "github-compare-url", left |-> Empty,
                  right |-> Empty, ownerRepo |-> <<"o", "/", "r">>, leftRef |-> <<"m", "a", "i", "n">>,  \* "o/r", "main"
                  rightRef |-> <<"a", "b", "c", "d", "e", "f", "1">>, rightOwner |-> <<"x">>, rightRepo |-> <<"y">>]],  \* "abcdef1"
      [callee |-> "resolveGitHubCompareRefs",
       range |-> [kind |-> "range", type |-> "github-compare-url", left |-> Empty,
                  right |-> Empty, ownerRepo |-> <<"o", "/", "r">>, leftRef |-> <<"a", "b", "c", "d", "e", "f">>,  \* "o/r", "abcdef"
                  rightRef |-> <<"A", "B", "C", "D", "E", "F", "1", "2">>]],  \* "ABCDEF12"
      [callee |-> "resolvePRRangeRefs",
       range |-> [kind |-> "range", type |-> "pr-range", left |-> Empty, right |-> Empty,
                  leftPr |-> [owner |-> <<"o">>, repo |-> <<"r">>, prNumber |-> 1],
                  rightPr |-> [owner |-> <<"o">>, repo |-> <<"r">>, prNumber |-> 2]]],
      [callee |-> "resolveGitUrlRefs",
       range |-> [kind |-> "range", type |-> "git-url-range", left |-> <<"a", "b">>,
                  right |-> <<"c", "d">>, leftGitUrl |-> <<"g", "i", "t", "@", "h", ":", "p">>, rightGitUrl |-> <<"g", "i", "t", "@", "h", ":", "p">>]] }  \* "git@h:p", "git@h:p"
    \cup
    { [callee |-> "resolveLocalRefs",
       range |-> [kind |-> "range", type |-> "local-range", left |-> l, right |-> r]] :
         l \in {<<"m", "a", "i", "n">>, <<"a", "b">>}, r \in {<<"m", "a", "i", "n">>, <<"c", "d">>} }  \* "main", "main"

\* resolversByRefRangeType
resolversByRefRangeType(type) ==
    CASE type = "local-range" -> "resolveLocalRefs"
      [] type = "remote-range" -> "resolveRemoteRefs"
      [] type = "pr-ref" -> "resolvePRRefs"
      [] type = "github-url" -> "resolvePRRefs"
      [] type = "pr-range" -> "resolvePRRangeRefs"
      [] type = "git-url-range" -> "resolveGitUrlRefs"
      [] type = "github-commit-url" -> "resolveGitHubCommitRefs"
      [] type = "github-pr-changes-url" -> "resolveGitHubPRChangesRefs"
      [] type = "github-compare-url" -> "resolveGitHubCompareRefs"
      [] type = "gitlab-mr-ref" -> "resolveGitLabMRRefs"

InitCommon ==
    /\ parsed = None
    /\ peer = PeerIdle
    /\ tempPrefix = Empty
    /\ loc = [idx |-> 1, leftRefspec |-> [src |-> Empty, dst |-> Empty],
              rightRefspec |-> [src |-> Empty, dst |-> Empty], deepened |-> FALSE]
    /\ repoRefs = CallerRefs
    /\ fetchLog = <<>>
    /\ mbLog = <<>>
    /\ deleteLog = <<>>
    /\ resolved = None
    /\ output = "none"
    /\ pending = Running
    /\ cleanupLog = <<>>
    /\ outcome = Running

Init ==
    /\ InitCommon
    /\ pc = "start"
    /\ \/ /\ env \in {Env(PlainOptions), Env(FilterOptions)}
          /\ entry = IF shouldUseGitPassThrough(env.opts, TRUE) THEN "passthrough" ELSE "run"
          /\ input \in CliInputs
          /\ callee = "none"
          /\ range = None
       \/ /\ entry = "resolver"
          /\ env = Env(PlainOptions)
          /\ input = Empty
          /\ \E c \in DirectCalls : callee = c.callee /\ range = c.range

\* resolveRefsForRange: parseRangeInput, then resolveRefs dispatches on the type;
\* the parser's DiffxError ends the invocation
RunParse ==
    /\ entry = "run"
    /\ pc = "start"
    /\ input # Empty
    /\ LET r == parseRangeInput(input)
       IN  /\ parsed' = r
           /\ IF r.kind = "error"
              THEN /\ pc' = "done"
                   /\ outcome' = r
                   /\ UNCHANGED <<callee, range>>
              ELSE /\ pc' = "resolve"
                   /\ range' = r
                   /\ callee' = resolversByRefRangeType(r.type)
                   /\ UNCHANGED outcome
    /\ UNCHANGED <<input, entry, env, peer, tempPrefix, loc, gitVars, resolved, output, pending,
                   cleanupLog>>

NoCleanupRefs(left, right) ==
    [kind |-> "refs", left |-> left, right |-> right, cleanup |-> FALSE,
     cleanupRefs |-> <<>>]

\* without the catch around parseRangeInput: its error ends the invocation
PassThroughParseRethrows ==
    /\ entry = "passthrough"
    /\ pc = "start"
    /\ LET r == parseRangeInput(input)
       IN  IF input = Empty
           THEN /\ resolved' = NoCleanupRefs(Empty, Empty)
                /\ pc' = "output"
                /\ UNCHANGED <<parsed, callee, range, outcome>>
           ELSE
           /\ parsed' = r
           /\ IF r.kind = "error"
              THEN /\ pc' = "done"
                   /\ outcome' = r
                   /\ UNCHANGED <<callee, range, resolved>>
              ELSE IF r.type = "local-range"
              THEN /\ resolved' = NoCleanupRefs(r.left, r.right)
                   /\ pc' = "output"
                   /\ UNCHANGED <<callee, range, outcome>>
              ELSE /\ pc' = "resolve"
                   /\ range' = r
                   /\ callee' = resolversByRefRangeType(r.type)
                   /\ UNCHANGED <<resolved, outcome>>
    /\ UNCHANGED <<input, entry, env, peer, tempPrefix, loc, gitVars, output, pending, cleanupLog>>

\* runGitPassThrough: without a range argument git diff gets no revision; an
\* unparsable argument is handed to git as it is (unless
\* it already is among the git arguments), a local range is used unresolved,
\* anything else goes through resolveRefs
PassThroughParse ==
    /\ entry = "passthrough"
    /\ pc = "start"
    /\ LET r == parseRangeInput(input)
       IN  IF input = Empty
           THEN /\ resolved' = NoCleanupRefs(Empty, Empty)
                /\ pc' = "output"
                /\ UNCHANGED <<parsed, callee, range>>
           ELSE
           /\ parsed' = r
           /\ IF r.kind = "error"
              THEN /\ \E inGitArgs \in BOOLEAN :
                        resolved' = NoCleanupRefs(IF inGitArgs THEN Empty ELSE input, Empty)
                   /\ pc' = "output"
                   /\ UNCHANGED <<callee, range>>
              ELSE IF r.type = "local-range"
              THEN /\ resolved' = NoCleanupRefs(r.left, r.right)
                   /\ pc' = "output"
                   /\ UNCHANGED <<callee, range>>
              ELSE /\ pc' = "resolve"
                   /\ range' = r
                   /\ callee' = resolversByRefRangeType(r.type)
                   /\ UNCHANGED resolved
    /\ UNCHANGED <<input, entry, env, peer, tempPrefix, loc, gitVars, output, pending, cleanupLog,
                   outcome>>

\* a resolver called directly
CallResolver ==
    /\ entry = "resolver"
    /\ pc = "start"
    /\ pc' = "resolve"
    /\ UNCHANGED <<parseVars, entry, env, peer, resVars, gitVars, resolved, output, pending,
                   cleanupLog, outcome>>

\* ------------------------------------------------------------------------
\* Resolvers
\* ------------------------------------------------------------------------

\* what a resolver step leaves alone besides the plumbing it uses
ResolverFrame == UNCHANGED <<parseVars, entry, env, peer, callee, range, output, pending, cleanupLog>>

\* the check made only after a fetch, which could but fail
RejectsAfterFetch(err) ==
    /\ ResolverThrows(err)
    /\ fetchLog' = Append(fetchLog, [url |-> Empty, refspecs |-> <<>>, depth |-> 1,
                                     ok |-> FALSE])
    /\ UNCHANGED <<tempPrefix, loc, repoRefs, mbLog, deleteLog>>
    /\ ResolverFrame

\* throw before any plumbing call
Rejects(err) ==
    /\ ResolverThrows(err)
    /\ UNCHANGED <<tempPrefix, loc, gitVars>>
    /\ ResolverFrame

\* const tempPrefix = createTempRefPrefix(); then on to the first fetch
Allocates(next) ==
    /\ \E now \in NowValues, bytes \in RandomBytes :
          tempPrefix' = createTempRefPrefix(now, bytes)
    /\ pc' = next
    /\ UNCHANGED <<loc, gitVars, resolved, outcome>>
    /\ ResolverFrame

InvalidOwnerRepo(ownerRepo) ==
    DiffxError(<<Lit("Invalid owner/repo: "), Val(ownerRepo)>>, INVALID_INPUT)

BadOwnerRepo(ownerRepo) ==
    LET p == SplitOwnerRepo(ownerRepo) IN p.owner = Empty \/ p.repo = Empty

GitHubUrlOf(ownerRepo) ==
    LET p == SplitOwnerRepo(ownerRepo) IN buildGitHubUrl(p.owner, p.repo)

\* gitClient.refExistsAny(ref): git rev-parse --verify finds a full ref name,
\* a branch, a tag or a remote-tracking branch
refExistsAny(ref) ==
    \/ ref \in repoRefs
    \/ <<"r", "e", "f", "s", "/", "h", "e", "a", "d", "s", "/">> \o ref \in repoRefs  \* "refs/heads/"
    \/ <<"r", "e", "f", "s", "/", "t", "a", "g", "s", "/">> \o ref \in repoRefs  \* "refs/tags/"
    \/ <<"r", "e", "f", "s", "/", "r", "e", "m", "o", "t", "e", "s", "/">> \o ref \in repoRefs  \* "refs/remotes/"

\* ---- resolveLocalRefs ----

\* the right ref is checked before the left one
ResolveLocalRightFirst ==
    /\ pc = "resolve"
    /\ callee = "resolveLocalRefs"
    /\ LET left  == normalizeRef(range.left)
           right == normalizeRef(range.right)
       IN  IF range.type # "local-range"
           THEN ResolverThrows(DiffxError(<<Lit("Invalid ref type for local resolver")>>,
                                          INVALID_INPUT))
           ELSE IF ~refExistsAny(right)
           THEN ResolverThrows(DiffxError(<<Lit("Right ref does not exist: "),
                                            Val(range.right)>>, INVALID_INPUT))
           ELSE IF ~refExistsAny(left)
           THEN ResolverThrows(DiffxError(<<Lit("Left ref does not exist: "),
                                            Val(range.left)>>, INVALID_INPUT))
           ELSE /\ resolved' = NoCleanupRefs(left, right)
                /\ pc' = IF entry = "resolver" THEN "done" ELSE "output"
                /\ outcome' = IF entry = "resolver" THEN Succeeded ELSE outcome
    /\ UNCHANGED <<tempPrefix, loc, gitVars>>
    /\ ResolverFrame

\* the local resolver hands out a cleanup like the remote ones
ResolveLocalWithCleanup ==
    /\ pc = "resolve"
    /\ callee = "resolveLocalRefs"
    /\ LET left  == normalizeRef(range.left)
           right == normalizeRef(range.right)
       IN  IF range.type # "local-range"
           THEN ResolverThrows(DiffxError(<<Lit("Invalid ref type for local resolver")>>,
                                          INVALID_INPUT))
           ELSE IF ~refExistsAny(left)
           THEN ResolverThrows(DiffxError(<<Lit("Left ref does not exist: "),
                                            Val(range.left)>>, INVALID_INPUT))
           ELSE IF ~refExistsAny(right)
           THEN ResolverThrows(DiffxError(<<Lit("Right ref does not exist: "),
                                            Val(range.right)>>, INVALID_INPUT))
           ELSE /\ resolved' = [NoCleanupRefs(left, right) EXCEPT !.cleanup = TRUE]
                /\ pc' = IF entry = "resolver" THEN "done" ELSE "output"
                /\ outcome' = IF entry = "resolver" THEN Succeeded ELSE outcome
    /\ UNCHANGED <<tempPrefix, loc, gitVars>>
    /\ ResolverFrame

ResolveLocal ==
    /\ pc = "resolve"
    /\ callee = "resolveLocalRefs"
    /\ LET left  == normalizeRef(range.left)
           right == normalizeRef(range.right)
       IN  IF range.type # "local-range"
           THEN ResolverThrows(DiffxError(<<Lit("Invalid ref type for local resolver")>>,
                                          INVALID_INPUT))
           ELSE IF ~refExistsAny(left)
           THEN ResolverThrows(DiffxError(<<Lit("Left ref does not exist: "),
                                            Val(range.left)>>, INVALID_INPUT))
           ELSE IF ~refExistsAny(right)
           THEN ResolverThrows(DiffxError(<<Lit("Right ref does not exist: "),
                                            Val(range.right)>>, INVALID_INPUT))
           ELSE /\ resolved' = NoCleanupRefs(left, right)
                /\ pc' = IF entry = "resolver" THEN "done" ELSE "output"
                /\ outcome' = IF entry = "resolver" THEN Succeeded ELSE outcome
    /\ UNCHANGED <<tempPrefix, loc, gitVars>>
    /\ ResolverFrame

\* ---- resolveRemoteRefs ----

\* value.match(/^[^/]+\/[^@]+@(.+)$/): the ref after the first "@"
RemoteRefMatch(value) ==
    With(Segments(value, Slash, <<"@">>), LAMBDA m :
      IF ~m.match THEN NoMatch
      ELSE IF m.rest = Empty THEN NoMatch
      ELSE [match |-> TRUE, ref |-> m.rest])

RemoteBegin ==
    /\ pc = "resolve"
    /\ callee = "resolveRemoteRefs"
    /\ IF range.type # "remote-range" \/ ~Has(range, "ownerRepo")
       THEN Rejects(DiffxError(<<Lit("Invalid ref type for remote resolver")>>,
                               INVALID_INPUT))
       ELSE IF BadOwnerRepo(range.ownerRepo)
       THEN Rejects(InvalidOwnerRepo(range.ownerRepo))
       ELSE IF ~RemoteRefMatch(range.left).match \/ ~RemoteRefMatch(range.right).match
       THEN Rejects(DiffxError(<<Lit("Invalid remote ref format")>>, INVALID_INPUT))
       ELSE Allocates("remote-fetch")

\* both refs are fetched into one temp ref
RemoteFetchOneRef ==
    /\ pc = "remote-fetch"
    /\ LET destRef == tempPrefix \o <<"/", "l", "e", "f", "t">>  \* "/left"
       IN  \E ok \in BOOLEAN :
             /\ FetchFromUrl(GitHubUrlOf(range.ownerRepo),
                             << Refspec(RemoteRefMatch(range.left).ref, destRef),
                                Refspec(RemoteRefMatch(range.right).ref, destRef) >>,
                             1, ok)
             /\ IF ok
                THEN ResolverReturns(destRef, destRef, <<destRef, destRef>>)
                ELSE ResolverThrows(Wrapped("Failed to fetch remote refs: ", FetchFailure))
    /\ UNCHANGED <<tempPrefix, loc, mbLog, deleteLog>>
    /\ ResolverFrame

RemoteFetch ==
    /\ pc = "remote-fetch"
    /\ LET leftDestRef  == tempPrefix \o <<"/", "l", "e", "f", "t">>  \* "/left"
           rightDestRef == tempPrefix \o <<"/", "r", "i", "g", "h", "t">>  \* "/right"
       IN  \E ok \in BOOLEAN :
             /\ FetchFromUrl(GitHubUrlOf(range.ownerRepo),
                             << Refspec(RemoteRefMatch(range.left).ref, leftDestRef),
                                Refspec(RemoteRefMatch(range.right).ref, rightDestRef) >>,
                             1, ok)
             /\ IF ok
                THEN ResolverReturns(leftDestRef, rightDestRef,
                                     <<leftDestRef, rightDestRef>>)
                ELSE ResolverThrows(Wrapped("Failed to fetch remote refs: ", FetchFailure))
    /\ UNCHANGED <<tempPrefix, loc, mbLog, deleteLog>>
    /\ ResolverFrame

\* ---- resolveGitUrlRefs ----

\* without the shortcut for one URL on both sides
GitUrlBeginSeparately ==
    /\ pc = "resolve"
    /\ callee = "resolveGitUrlRefs"
    /\ IF range.type # "git-url-range" \/ ~Has(range, "leftGitUrl")
          \/ ~Has(range, "rightGitUrl")
       THEN Rejects(DiffxError(<<Lit("Invalid ref type for git URL resolver")>>,
                               INVALID_INPUT))
       ELSE Allocates("giturl-fetch-left")

GitUrlBegin ==
    /\ pc = "resolve"
    /\ callee = "resolveGitUrlRefs"
    /\ IF range.type # "git-url-range" \/ ~Has(range, "leftGitUrl")
          \/ ~Has(range, "rightGitUrl")
       THEN Rejects(DiffxError(<<Lit("Invalid ref type for git URL resolver")>>,
                               INVALID_INPUT))
       ELSE Allocates(IF range.leftGitUrl = range.rightGitUrl
                      THEN "giturl-fetch-both" ELSE "giturl-fetch-left")

GitUrlFetchBoth ==
    /\ pc = "giturl-fetch-both"
    /\ LET leftDestRef  == tempPrefix \o <<"/", "l", "e", "f", "t">>  \* "/left"
           rightDestRef == tempPrefix \o <<"/", "r", "i", "g", "h", "t">>  \* "/right"
       IN  \E ok \in BOOLEAN :
             /\ FetchFromUrl(range.leftGitUrl,
                             << Refspec(range.left, leftDestRef),
                                Refspec(range.right, rightDestRef) >>, 1, ok)
             /\ IF ok
                THEN ResolverReturns(leftDestRef, rightDestRef,
                                     <<leftDestRef, rightDestRef>>)
                ELSE ResolverThrows(Wrapped("Failed to fetch refs from git URL: ",
                                            FetchFailure))
    /\ UNCHANGED <<tempPrefix, loc, mbLog, deleteLog>>
    /\ ResolverFrame

\* a failed fetch from the left URL is not final: the right URL is tried too
GitUrlFetchLeftContinues ==
    /\ pc = "giturl-fetch-left"
    /\ \E ok \in BOOLEAN :
         FetchFromUrl(range.leftGitUrl,
                      <<Refspec(range.left, tempPrefix \o <<"/", "l", "e", "f", "t">>)>>, 1, ok)  \* "/left"
    /\ pc' = "giturl-fetch-right"
    /\ UNCHANGED <<resolved, outcome, tempPrefix, loc, mbLog, deleteLog>>
    /\ ResolverFrame

GitUrlFetchLeft ==
    /\ pc = "giturl-fetch-left"
    /\ \E ok \in BOOLEAN :
         /\ FetchFromUrl(range.leftGitUrl,
                         <<Refspec(range.left, tempPrefix \o <<"/", "l", "e", "f", "t">>)>>, 1, ok)  \* "/left"
         /\ IF ok
            THEN pc' = "giturl-fetch-right" /\ UNCHANGED <<resolved, outcome>>
            ELSE ResolverThrows(Wrapped("Failed to fetch refs from git URL: ",
                                            FetchFailure))
    /\ UNCHANGED <<tempPrefix, loc, mbLog, deleteLog>>
    /\ ResolverFrame

GitUrlFetchRight ==
    /\ pc = "giturl-fetch-right"
    /\ LET leftDestRef  == tempPrefix \o <<"/", "l", "e", "f", "t">>  \* "/left"
           rightDestRef == tempPrefix \o <<"/", "r", "i", "g", "h", "t">>  \* "/right"
       IN  \E ok \in BOOLEAN :
             /\ FetchFromUrl(range.rightGitUrl,
                             <<Refspec(range.right, rightDestRef)>>, 1, ok)
             /\ IF ok
                THEN ResolverReturns(leftDestRef, rightDestRef,
                                     <<leftDestRef, rightDestRef>>)
                ELSE ResolverThrows(Wrapped("Failed to fetch refs from git URL: ",
                                            FetchFailure))
    /\ UNCHANGED <<tempPrefix, loc, mbLog, deleteLog>>
    /\ ResolverFrame

\* ---- resolvePRRefs, resolvePRRangeRefs (fetchPRRefs) ----

\* `${tempPrefix}/pull/${prNumber}/head` and .../merge
PRHeadRef(prefix, prNumber) == prefix \o <<"/", "p", "u", "l", "l", "/">> \o toStringRadix(prNumber, 10) \o <<"/", "h", "e", "a", "d">>  \* "/pull/", "/head"
PRMergeRef(prefix, prNumber) == prefix \o <<"/", "p", "u", "l", "l", "/">> \o toStringRadix(prNumber, 10) \o <<"/", "m", "e", "r", "g", "e">>  \* "/pull/", "/merge"

\* the two refspecs fetchPRRefs fetches
PRRefspecs(prefix, prNumber) ==
    << Refspec(<<"r", "e", "f", "s", "/", "p", "u", "l", "l", "/">> \o toStringRadix(prNumber, 10) \o <<"/", "h", "e", "a", "d">>,  \* "refs/pull/", "/head"
               PRHeadRef(prefix, prNumber)),
       Refspec(<<"r", "e", "f", "s", "/", "p", "u", "l", "l", "/">> \o toStringRadix(prNumber, 10) \o <<"/", "m", "e", "r", "g", "e">>,  \* "refs/pull/", "/merge"
               PRMergeRef(prefix, prNumber)) >>

PRBegin ==
    /\ pc = "resolve"
    /\ callee = "resolvePRRefs"
    /\ IF ~Has(range, "ownerRepo") \/ "prNumber" \notin DOMAIN range
       THEN Rejects(DiffxError(<<Lit("Invalid PR ref")>>, INVALID_INPUT))
       ELSE IF BadOwnerRepo(range.ownerRepo)
       \* thrown inside the try block: the catch wraps it
       THEN Rejects(Wrapped("Failed to fetch PR refs: ", InvalidOwnerRepo(range.ownerRepo).message))
       ELSE Allocates("pr-fetch")

\* the PR head is diffed against the merge commit instead of merge^1..merge
PRFetchDiffsHead ==
    /\ pc = "pr-fetch"
    /\ \E ok \in BOOLEAN :
         /\ FetchFromUrl(GitHubUrlOf(range.ownerRepo),
                         PRRefspecs(tempPrefix, range.prNumber), 2, ok)
         /\ IF ok
            THEN ResolverReturns(PRMergeRef(tempPrefix, range.prNumber),
                                 PRHeadRef(tempPrefix, range.prNumber),
                                 << PRHeadRef(tempPrefix, range.prNumber),
                                    PRMergeRef(tempPrefix, range.prNumber) >>)
            ELSE ResolverThrows(Wrapped("Failed to fetch PR refs: ", FetchFailure))
    /\ UNCHANGED <<tempPrefix, loc, mbLog, deleteLog>>
    /\ ResolverFrame

PRFetch ==
    /\ pc = "pr-fetch"
    /\ LET mergeRef == PRMergeRef(tempPrefix, range.prNumber)
           headRef  == PRHeadRef(tempPrefix, range.prNumber)
       IN  \E ok \in BOOLEAN :
             /\ FetchFromUrl(GitHubUrlOf(range.ownerRepo),
                             PRRefspecs(tempPrefix, range.prNumber), 2, ok)
             /\ IF ok
                THEN ResolverReturns(mergeRef \o <<"^", "1">>, mergeRef,
                                     <<headRef, mergeRef>>)
                ELSE ResolverThrows(Wrapped("Failed to fetch PR refs: ", FetchFailure))
    /\ UNCHANGED <<tempPrefix, loc, mbLog, deleteLog>>
    /\ ResolverFrame

PRRangeBegin ==
    /\ pc = "resolve"
    /\ callee = "resolvePRRangeRefs"
    /\ IF "leftPr" \notin DOMAIN range \/ "rightPr" \notin DOMAIN range
       THEN Rejects(DiffxError(<<Lit("Invalid PR range")>>, INVALID_INPUT))
       ELSE Allocates("prrange-fetch-left")

PRRangeFetchLeft ==
    /\ pc = "prrange-fetch-left"
    /\ \E ok \in BOOLEAN :
         /\ FetchFromUrl(buildGitHubUrl(range.leftPr.owner, range.leftPr.repo),
                         PRRefspecs(tempPrefix \o <<"/", "l", "e", "f", "t">>, range.leftPr.prNumber),  \* "/left"
                         2, ok)
         /\ IF ok
            THEN pc' = "prrange-fetch-right" /\ UNCHANGED <<resolved, outcome>>
            ELSE ResolverThrows(Wrapped("Failed to fetch PR range refs: ", FetchFailure))
    /\ UNCHANGED <<tempPrefix, loc, mbLog, deleteLog>>
    /\ ResolverFrame

\* the right PR is resolved like a single PR: merge refs are the endpoints
PRRangeFetchRightMerge ==
    /\ pc = "prrange-fetch-right"
    /\ LET leftPrefix  == tempPrefix \o <<"/", "l", "e", "f", "t">>  \* "/left"
           rightPrefix == tempPrefix \o <<"/", "r", "i", "g", "h", "t">>  \* "/right"
           l           == range.leftPr.prNumber
           r           == range.rightPr.prNumber
       IN  \E ok \in BOOLEAN :
             /\ FetchFromUrl(buildGitHubUrl(range.rightPr.owner, range.rightPr.repo),
                             PRRefspecs(rightPrefix, r), 2, ok)
             /\ IF ok
                THEN ResolverReturns(PRMergeRef(leftPrefix, l), PRMergeRef(rightPrefix, r),
                                     << PRHeadRef(leftPrefix, l), PRMergeRef(leftPrefix, l),
                                        PRHeadRef(rightPrefix, r), PRMergeRef(rightPrefix, r) >>)
                ELSE ResolverThrows(Wrapped("Failed to fetch PR range refs: ", FetchFailure))
    /\ UNCHANGED <<tempPrefix, loc, mbLog, deleteLog>>
    /\ ResolverFrame

\* the cleanup deletes the two endpoints only
PRRangeFetchRightHeadsCleanup ==
    /\ pc = "prrange-fetch-right"
    /\ LET leftPrefix  == tempPrefix \o <<"/", "l", "e", "f", "t">>  \* "/left"
           rightPrefix == tempPrefix \o <<"/", "r", "i", "g", "h", "t">>  \* "/right"
           l           == range.leftPr.prNumber
           r           == range.rightPr.prNumber
       IN  \E ok \in BOOLEAN :
             /\ FetchFromUrl(buildGitHubUrl(range.rightPr.owner, range.rightPr.repo),
                             PRRefspecs(rightPrefix, r), 2, ok)
             /\ IF ok
                THEN ResolverReturns(PRHeadRef(leftPrefix, l), PRHeadRef(rightPrefix, r),
                                     << PRHeadRef(leftPrefix, l), PRHeadRef(rightPrefix, r) >>)
                ELSE ResolverThrows(Wrapped("Failed to fetch PR range refs: ", FetchFailure))
    /\ UNCHANGED <<tempPrefix, loc, mbLog, deleteLog>>
    /\ ResolverFrame

PRRangeFetchRight ==
    /\ pc = "prrange-fetch-right"
    /\ LET leftPrefix  == tempPrefix \o <<"/", "l", "e", "f", "t">>  \* "/left"
           rightPrefix == tempPrefix \o <<"/", "r", "i", "g", "h", "t">>  \* "/right"
           l           == range.leftPr.prNumber
           r           == range.rightPr.prNumber
       IN  \E ok \in BOOLEAN :
             /\ FetchFromUrl(buildGitHubUrl(range.rightPr.owner, range.rightPr.repo),
                             PRRefspecs(rightPrefix, r), 2, ok)
             /\ IF ok
                THEN ResolverReturns(PRHeadRef(leftPrefix, l), PRHeadRef(rightPrefix, r),
                                     << PRHeadRef(leftPrefix, l), PRMergeRef(leftPrefix, l),
                                        PRHeadRef(rightPrefix, r), PRMergeRef(rightPrefix, r) >>)
                ELSE ResolverThrows(Wrapped("Failed to fetch PR range refs: ", FetchFailure))
    /\ UNCHANGED <<tempPrefix, loc, mbLog, deleteLog>>
    /\ ResolverFrame

\* ---- resolveGitLabMRRefs (fetchMRRefs) ----

\* the prefix is generated first, and fetchMRRefs validates inside the try
MRBegin ==
    /\ pc = "resolve"
    /\ callee = "resolveGitLabMRRefs"
    /\ \E now \in NowValues, bytes \in RandomBytes :
          tempPrefix' = createTempRefPrefix(now, bytes)
    /\ IF ~Has(range, "ownerRepo") \/ "prNumber" \notin DOMAIN range
       THEN ResolverThrows(Wrapped("Failed to fetch GitLab MR refs: ", <<Lit("Invalid GitLab MR ref")>>))
       ELSE IF BadOwnerRepo(range.ownerRepo)
       THEN ResolverThrows(Wrapped("Failed to fetch GitLab MR refs: ", InvalidOwnerRepo(range.ownerRepo).message))
       ELSE pc' = "mr-fetch" /\ UNCHANGED <<resolved, outcome>>
    /\ UNCHANGED <<loc, gitVars>>
    /\ ResolverFrame

MRFetch ==
    /\ pc = "mr-fetch"
    /\ LET p        == SplitOwnerRepo(range.ownerRepo)
           mrNumber == toStringRadix(range.prNumber, 10)
           mergeRef == tempPrefix \o <<"/", "m", "e", "r", "g", "e", "-", "r", "e", "q", "u", "e", "s", "t", "s", "/">> \o mrNumber \o <<"/", "m", "e", "r", "g", "e">>  \* "/merge-requests/", "/merge"
           headRef  == tempPrefix \o <<"/", "m", "e", "r", "g", "e", "-", "r", "e", "q", "u", "e", "s", "t", "s", "/">> \o mrNumber \o <<"/", "h", "e", "a", "d">>  \* "/merge-requests/", "/head"
       IN  \E ok \in BOOLEAN :
             /\ FetchFromUrl(<<"g", "i", "t", "@", "g", "i", "t", "l", "a", "b", ".", "c", "o", "m", ":">> \o p.owner \o Slash \o p.repo \o <<".", "g", "i", "t">>,  \* "git@gitlab.com:", ".git"
                             << Refspec(<<"r", "e", "f", "s", "/", "m", "e", "r", "g", "e", "-", "r", "e", "q", "u", "e", "s", "t", "s", "/">> \o mrNumber \o <<"/", "h", "e", "a", "d">>,  \* "refs/merge-requests/", "/head"
                                        headRef),
                                Refspec(<<"r", "e", "f", "s", "/", "m", "e", "r", "g", "e", "-", "r", "e", "q", "u", "e", "s", "t", "s", "/">> \o mrNumber \o <<"/", "m", "e", "r", "g", "e">>,  \* "refs/merge-requests/", "/merge"
                                        mergeRef) >>,
                             2, ok)
             /\ IF ok
                THEN ResolverReturns(mergeRef \o <<"^", "1">>, mergeRef,
                                     <<headRef, mergeRef>>)
                ELSE ResolverThrows(Wrapped("Failed to fetch GitLab MR refs: ", FetchFailure))
    /\ UNCHANGED <<tempPrefix, loc, mbLog, deleteLog>>
    /\ ResolverFrame

\* ---- resolveGitHubCommitRefs ----

CommitBegin ==
    /\ pc = "resolve"
    /\ callee = "resolveGitHubCommitRefs"
    /\ IF ~Has(range, "ownerRepo") \/ ~Has(range, "commitSha")
       THEN Rejects(DiffxError(<<Lit("Invalid GitHub commit URL")>>, INVALID_INPUT))
       ELSE IF BadOwnerRepo(range.ownerRepo)
       THEN Rejects(Wrapped("Failed to fetch commit refs: ", InvalidOwnerRepo(range.ownerRepo).message))
       ELSE Allocates("commit-fetch")

CommitFetch ==
    /\ pc = "commit-fetch"
    /\ LET commitRef == tempPrefix \o <<"/", "c", "o", "m", "m", "i", "t", "/">> \o range.commitSha  \* "/commit/"
       IN  \E ok \in BOOLEAN :
             /\ FetchFromUrl(GitHubUrlOf(range.ownerRepo),
                             <<Refspec(range.commitSha, commitRef)>>, 2, ok)
             /\ IF ok
                THEN ResolverReturns(commitRef \o <<"^">>, commitRef, <<commitRef>>)
                ELSE ResolverThrows(Wrapped("Failed to fetch commit refs: ", FetchFailure))
    /\ UNCHANGED <<tempPrefix, loc, mbLog, deleteLog>>
    /\ ResolverFrame

\* ---- resolveGitHubPRChangesRefs ----

PRChangesBegin ==
    /\ pc = "resolve"
    /\ callee = "resolveGitHubPRChangesRefs"
    /\ IF ~Has(range, "ownerRepo") \/ "prNumber" \notin DOMAIN range \/ range.prNumber = 0
          \/ ~Has(range, "leftCommitSha") \/ ~Has(range, "rightCommitSha")
       THEN Rejects(DiffxError(<<Lit("Invalid GitHub PR changes URL")>>, INVALID_INPUT))
       ELSE IF BadOwnerRepo(range.ownerRepo)
       THEN Rejects(Wrapped("Failed to fetch PR changes refs: ", InvalidOwnerRepo(range.ownerRepo).message))
       ELSE Allocates("prchanges-fetch")

PRChangesFetch ==
    /\ pc = "prchanges-fetch"
    /\ LET leftCommitRef  == tempPrefix \o <<"/", "l", "e", "f", "t", "-", "c", "o", "m", "m", "i", "t", "/">> \o range.leftCommitSha  \* "/left-commit/"
           rightCommitRef == tempPrefix \o <<"/", "r", "i", "g", "h", "t", "-", "c", "o", "m", "m", "i", "t", "/">> \o range.rightCommitSha  \* "/right-commit/"
       IN  \E ok \in BOOLEAN :
             /\ FetchFromUrl(GitHubUrlOf(range.ownerRepo),
                             << Refspec(range.leftCommitSha, leftCommitRef),
                                Refspec(range.rightCommitSha, rightCommitRef) >>,
                             2, ok)
             /\ IF ok
                THEN ResolverReturns(leftCommitRef, rightCommitRef,
                                     <<leftCommitRef, rightCommitRef>>)
                ELSE ResolverThrows(Wrapped("Failed to fetch PR changes refs: ", FetchFailure))
    /\ UNCHANGED <<tempPrefix, loc, mbLog, deleteLog>>
    /\ ResolverFrame

\* ---- resolveGitHubCompareRefs ----

CompareFailure(message) == Wrapped("Failed to fetch compare refs: ", message)

CompareLeftRef(prefix, r) == prefix \o <<"/", "l", "e", "f", "t">> \o Slash \o r.leftRef  \* "/left"
CompareRightRef(prefix, r) == prefix \o <<"/", "r", "i", "g", "h", "t">> \o Slash \o r.rightRef  \* "/right"

\* the fork named on the right side is ignored
CompareRightUrlOfBase(r) == GitHubUrlOf(r.ownerRepo)

\* range.rightOwner || owner, range.rightRepo || repo
CompareRightUrl(r) ==
    LET p == SplitOwnerRepo(r.ownerRepo)
    IN  buildGitHubUrl(IF Has(r, "rightOwner") THEN r.rightOwner ELSE p.owner,
                       IF Has(r, "rightRepo") THEN r.rightRepo ELSE p.repo)

\* /^[a-f0-9]{7,40}$/i.test(ref)
isCommitSha(ref) ==
    /\ Len(ref) >= 7
    /\ Len(ref) <= 40
    /\ \A i \in 1..Len(ref) : ref[i] \in HexDigits

\* without the shortcut for commit ids
buildRefspecByName(ref, targetRef) ==
    <<Refspec(<<"r", "e", "f", "s", "/", "h", "e", "a", "d", "s", "/">> \o ref, targetRef),  \* "refs/heads/"
      Refspec(<<"r", "e", "f", "s", "/", "t", "a", "g", "s", "/">> \o ref, targetRef)>>  \* "refs/tags/"

buildRefspec(ref, targetRef) ==
    IF isCommitSha(ref)
    THEN <<Refspec(ref, targetRef)>>
    ELSE <<Refspec(<<"r", "e", "f", "s", "/", "h", "e", "a", "d", "s", "/">> \o ref, targetRef),  \* "refs/heads/"
           Refspec(<<"r", "e", "f", "s", "/", "t", "a", "g", "s", "/">> \o ref, targetRef)>>  \* "refs/tags/"

ShallowDepth == 1
DeepenDepth == 200

CompareBegin ==
    /\ pc = "resolve"
    /\ callee = "resolveGitHubCompareRefs"
    /\ IF ~Has(range, "ownerRepo") \/ ~Has(range, "leftRef") \/ ~Has(range, "rightRef")
       THEN Rejects(DiffxError(<<Lit("Invalid GitHub compare URL")>>, INVALID_INPUT))
       ELSE IF BadOwnerRepo(range.ownerRepo)
       THEN Rejects(CompareFailure(InvalidOwnerRepo(range.ownerRepo).message))
       ELSE Allocates("compare-fetch-left")

\* one round of fetchRef's loop: the candidate at loc.idx is fetched; success
\* returns it, failure moves to the next candidate, the last failure is thrown
FetchRefStep(url, candidates, side, next) ==
    \E ok \in BOOLEAN :
      /\ FetchFromUrl(url, <<candidates[loc.idx]>>, ShallowDepth, ok)
      /\ IF ok
         THEN /\ loc' = [loc EXCEPT ![side] = candidates[loc.idx], !.idx = 1]
              /\ pc' = next
              /\ UNCHANGED <<resolved, outcome>>
         ELSE IF loc.idx < Len(candidates)
         THEN /\ loc' = [loc EXCEPT !.idx = loc.idx + 1]
              /\ UNCHANGED <<pc, resolved, outcome>>
         ELSE /\ ResolverThrows(CompareFailure(FetchFailure))
              /\ UNCHANGED loc

CompareFetchLeft ==
    /\ pc = "compare-fetch-left"
    /\ FetchRefStep(GitHubUrlOf(range.ownerRepo),
                    buildRefspec(range.leftRef, CompareLeftRef(tempPrefix, range)),
                    "leftRefspec", "compare-fetch-right")
    /\ UNCHANGED <<tempPrefix, mbLog, deleteLog>>
    /\ ResolverFrame

CompareFetchRight ==
    /\ pc = "compare-fetch-right"
    /\ FetchRefStep(CompareRightUrl(range),
                    buildRefspec(range.rightRef, CompareRightRef(tempPrefix, range)),
                    "rightRefspec", "compare-merge-base")
    /\ UNCHANGED <<tempPrefix, mbLog, deleteLog>>
    /\ ResolverFrame

\* what git merge-base can answer: a commit id on a line of its own, nothing,
\* or a failure (no common ancestor in the fetched history)
MergeBaseResults ==
    { [threw |-> FALSE, stdout |-> <<"0", "a", "1", "b", "2", "c", "3">> \o <<"\n">>],  \* "0a1b2c3"
      [threw |-> FALSE, stdout |-> <<"4", "d", "5", "e", "6", "f", "7">> \o <<"\n">>],  \* "4d5e6f7"
      [threw |-> FALSE, stdout |-> <<"\n">>],
      [threw |-> FALSE, stdout |-> Empty],
      [threw |-> TRUE, stdout |-> Empty] }

\* getMergeBase: null (Empty here) when the lookup throws or prints nothing
getMergeBase(result) ==
    IF result.threw THEN Empty ELSE trim(result.stdout)

MergeBaseFailure == <<Lit("Failed to determine merge base for compare refs")>>

\* no deepening fallback: the first failed lookup is final
CompareMergeBaseNoRetry ==
    /\ pc = "compare-merge-base"
    /\ \E result \in MergeBaseResults :
         /\ mbLog' = Append(mbLog, [left |-> CompareLeftRef(tempPrefix, range),
                                    right |-> CompareRightRef(tempPrefix, range),
                                    result |-> result])
         /\ IF getMergeBase(result) # Empty
            THEN ResolverReturns(getMergeBase(result), CompareRightRef(tempPrefix, range),
                                 << CompareLeftRef(tempPrefix, range),
                                    CompareRightRef(tempPrefix, range) >>)
            ELSE ResolverThrows(CompareFailure(MergeBaseFailure))
    /\ UNCHANGED <<tempPrefix, loc, repoRefs, fetchLog, deleteLog>>
    /\ ResolverFrame

\* two-dot semantics: the fetched left ref is returned as the left endpoint
CompareMergeBaseTwoDot ==
    /\ pc = "compare-merge-base"
    /\ \E result \in MergeBaseResults :
         /\ mbLog' = Append(mbLog, [left |-> CompareLeftRef(tempPrefix, range),
                                    right |-> CompareRightRef(tempPrefix, range),
                                    result |-> result])
         /\ IF getMergeBase(result) # Empty
            THEN ResolverReturns(CompareLeftRef(tempPrefix, range),
                                 CompareRightRef(tempPrefix, range),
                                 << CompareLeftRef(tempPrefix, range),
                                    CompareRightRef(tempPrefix, range) >>)
            ELSE IF ~loc.deepened
            THEN pc' = "compare-deepen-left" /\ UNCHANGED <<resolved, outcome>>
            ELSE ResolverThrows(CompareFailure(MergeBaseFailure))
    /\ UNCHANGED <<tempPrefix, loc, repoRefs, fetchLog, deleteLog>>
    /\ ResolverFrame

\* let mergeBase = await getMergeBase(); and, after the re-fetch, the retry
CompareMergeBase ==
    /\ pc = "compare-merge-base"
    /\ \E result \in MergeBaseResults :
         LET mergeBase == getMergeBase(result)
         IN  /\ mbLog' = Append(mbLog, [left |-> CompareLeftRef(tempPrefix, range),
                                        right |-> CompareRightRef(tempPrefix, range),
                                        result |-> result])
             /\ IF mergeBase # Empty
                THEN ResolverReturns(mergeBase, CompareRightRef(tempPrefix, range),
                                     << CompareLeftRef(tempPrefix, range),
                                        CompareRightRef(tempPrefix, range) >>)
                ELSE IF ~loc.deepened
                THEN pc' = "compare-deepen-left" /\ UNCHANGED <<resolved, outcome>>
                ELSE ResolverThrows(CompareFailure(MergeBaseFailure))
    /\ UNCHANGED <<tempPrefix, loc, repoRefs, fetchLog, deleteLog>>
    /\ ResolverFrame

CompareDeepenLeft ==
    /\ pc = "compare-deepen-left"
    /\ \E ok \in BOOLEAN :
         /\ FetchFromUrl(GitHubUrlOf(range.ownerRepo), <<loc.leftRefspec>>, DeepenDepth, ok)
         /\ IF ok
            THEN pc' = "compare-deepen-right" /\ UNCHANGED <<resolved, outcome>>
            ELSE ResolverThrows(CompareFailure(FetchFailure))
    /\ UNCHANGED <<tempPrefix, loc, mbLog, deleteLog>>
    /\ ResolverFrame

CompareDeepenRight ==
    /\ pc = "compare-deepen-right"
    /\ \E ok \in BOOLEAN :
         /\ FetchFromUrl(CompareRightUrl(range), <<loc.rightRefspec>>, DeepenDepth, ok)
         /\ IF ok
            THEN /\ pc' = "compare-merge-base"
                 /\ loc' = [loc EXCEPT !.deepened = TRUE]
                 /\ UNCHANGED <<resolved, outcome>>
            ELSE ResolverThrows(CompareFailure(FetchFailure)) /\ UNCHANGED loc
    /\ UNCHANGED <<tempPrefix, mbLog, deleteLog>>
    /\ ResolverFrame

\* ------------------------------------------------------------------------
\* Output generation and cleanup (try / finally of the callers)
\* ------------------------------------------------------------------------

NO_FILES_MATCHED == 1

\* errors generateDiffOutput and the steps after it can raise in run
RunOutputErrors ==
    { DiffxError(<<Lit("git diff failed")>>, GIT_ERROR),
      DiffxError(<<Lit("No files matched")>>, NO_FILES_MATCHED) }

\* throw new DiffxError(stderr or "git diff failed", GIT_ERROR)
PassThroughOutputErrors ==
    { DiffxError(<<Lit("git diff failed")>>, GIT_ERROR),
      DiffxError(<<Lit("fatal: bad revision")>>, GIT_ERROR) }

\* the body of a try block: it completes normally or with one of errors; the
\* completion is held while the finally block runs
TryOutput(errors) ==
    /\ pc = "output"
    /\ \/ output' = "ok" /\ pending' = Succeeded
       \/ \E e \in errors : output' = "failed" /\ pending' = e
    /\ pc' = "finally"
    /\ UNCHANGED <<parseVars, entry, env, peer, resVars, gitVars, resolved, cleanupLog, outcome>>

RunOutput == entry = "run" /\ TryOutput(RunOutputErrors)

PassThroughOutput == entry = "passthrough" /\ TryOutput(PassThroughOutputErrors)

\* the deletions one after the other, given up at the first that fails
deleteRefsUntilFailure(refs, failing) ==
    LET stuck == { i \in DOMAIN refs : refs[i] \in failing }
        done == IF stuck = {} THEN refs ELSE SubSeq(refs, 1, SetMin(stuck) - 1)
    IN  /\ deleteLog' = Append(deleteLog, [refs |-> refs, failed |-> failing])
        /\ repoRefs' = repoRefs \ SeqToSet(done)

\* gitClient.deleteRefs(refs): update-ref -d on each; a failing one is ignored
deleteRefs(refs, failing) ==
    /\ deleteLog' = Append(deleteLog, [refs |-> refs, failed |-> failing])
    /\ repoRefs' = repoRefs \ (SeqToSet(refs) \ failing)

\* if (cleanup) { try { await cleanup() } catch {} }: the callback is whatever
\* resolveRefs returned; a rejection of it is swallowed, and the completion of
\* the try block is what the invocation ends with
FinallyCleanup ==
    /\ pc = "finally"
    /\ IF resolved.cleanup
       THEN \E rejects \in BOOLEAN :
              /\ cleanupLog' = Append(cleanupLog, [after |-> output, rejected |-> rejects])
              /\ IF rejects
                 THEN UNCHANGED <<repoRefs, deleteLog>>
                 ELSE \E failing \in SUBSET SeqToSet(resolved.cleanupRefs) :
                        deleteRefs(resolved.cleanupRefs, failing)
       ELSE UNCHANGED <<cleanupLog, repoRefs, deleteLog>>
    /\ outcome' = pending
    /\ pc' = "done"
    /\ UNCHANGED <<parseVars, entry, env, peer, resVars, fetchLog, mbLog, resolved, output, pending>>

\* cleanup after the try block instead of in a finally: skipped when the
\* output raised
RunCleanupOnSuccessOnly ==
    /\ entry = "run"
    /\ IF output = "ok"
       THEN FinallyCleanup
       ELSE /\ pc = "finally"
            /\ outcome' = pending
            /\ pc' = "done"
            /\ UNCHANGED <<parseVars, entry, env, peer, resVars, gitVars, resolved, output, pending,
                           cleanupLog>>

\* the finally block without the inner try / catch: the rejection of the
\* callback replaces the completion of the try block
PassThroughFinallyUnguarded ==
    /\ entry = "passthrough"
    /\ pc = "finally"
    /\ IF resolved.cleanup
       THEN \E rejects \in BOOLEAN :
              /\ cleanupLog' = Append(cleanupLog, [after |-> output, rejected |-> rejects])
              /\ outcome' = IF rejects
                            THEN DiffxError(<<Lit("cleanup failed")>>, GIT_ERROR)
                            ELSE pending
              /\ IF rejects
                 THEN UNCHANGED <<repoRefs, deleteLog>>
                 ELSE deleteRefs(resolved.cleanupRefs, {})
       ELSE outcome' = pending /\ UNCHANGED <<cleanupLog, repoRefs, deleteLog>>
    /\ pc' = "done"
    /\ UNCHANGED <<parseVars, entry, env, peer, resVars, fetchLog, mbLog, resolved, output, pending>>

RunFinally == entry = "run" /\ FinallyCleanup

PassThroughFinally == entry = "passthrough" /\ FinallyCleanup

\* how often the holder of a resolved range invokes its cleanup
MaxCleanupCalls == 2

\* the callback without deleteRefs' try / catch: a deletion that fails makes
\* the callback reject
CallCleanupUncaught ==
    /\ entry = "resolver"
    /\ pc = "done"
    /\ resolved # None
    /\ resolved.cleanup
    /\ Len(cleanupLog) < MaxCleanupCalls
    /\ \E failing \in SUBSET SeqToSet(resolved.cleanupRefs) :
         /\ deleteRefs(resolved.cleanupRefs, failing)
         /\ cleanupLog' = Append(cleanupLog, [after |-> output, rejected |-> failing # {}])
    /\ UNCHANGED <<parseVars, pc, entry, env, peer, resVars, fetchLog, mbLog, resolved, output,
                   pending, outcome>>

\* cleanup: async () => { await gitClient.deleteRefs([...]) }, invoked by the
\* caller of a resolver on what the resolver returned; deleteRefs ignores every
\* deletion that fails (a ref that is already gone included), so the callback
\* never rejects
CallCleanup ==
    /\ entry = "resolver"
    /\ pc = "done"
    /\ resolved # None
    /\ resolved.cleanup
    /\ Len(cleanupLog) < MaxCleanupCalls
    /\ \E failing \in SUBSET SeqToSet(resolved.cleanupRefs) :
         deleteRefs(resolved.cleanupRefs, failing)
    /\ cleanupLog' = Append(cleanupLog, [after |-> output, rejected |-> FALSE])
    /\ UNCHANGED <<parseVars, pc, entry, env, peer, resVars, fetchLog, mbLog, resolved, output,
                   pending, outcome>>

Next ==
    \/ RunParse
    \/ PassThroughParse
    \/ CallResolver
    \/ ResolveLocal
    \/ RemoteBegin
    \/ RemoteFetch
    \/ GitUrlBegin
    \/ GitUrlFetchBoth
    \/ GitUrlFetchLeft
    \/ GitUrlFetchRight
    \/ PRBegin
    \/ PRFetch
    \/ PRRangeBegin
    \/ PRRangeFetchLeft
    \/ PRRangeFetchRight
    \/ MRBegin
    \/ MRFetch
    \/ CommitBegin
    \/ CommitFetch
    \/ PRChangesBegin
    \/ PRChangesFetch
    \/ CompareBegin
    \/ CompareFetchLeft
    \/ CompareFetchRight
    \/ CompareMergeBase
    \/ CompareDeepenLeft
    \/ CompareDeepenRight
    \/ RunOutput
    \/ RunFinally
    \/ PassThroughOutput
    \/ PassThroughFinally
    \/ CallCleanup

Spec == Init /\ [][Next]_vars

\* ------------------------------------------------------------------------
\* The parser on its own, over bounded inputs
\* ------------------------------------------------------------------------

InitParse ==
    /\ InitCommon
    /\ pc = "start"
    /\ entry = "parse"
    /\ env = Env(PlainOptions)
    /\ input \in ParserInputs
    /\ callee = "none"
    /\ range = None

Parse ==
    /\ entry = "parse"
    /\ pc = "start"
    /\ parsed' = parseRangeInput(input)
    /\ pc' = "done"
    /\ outcome' = IF parsed'.kind = "error" THEN parsed' ELSE Succeeded
    /\ UNCHANGED <<input, entry, env, peer, resVars, gitVars, resolved, output, pending, cleanupLog>>

NextParse == Parse

SpecParse == InitParse /\ [][NextParse]_vars

\* ------------------------------------------------------------------------
\* An invocation without a range argument
\* ------------------------------------------------------------------------

MaxBranches == 2

\* getRemotes(): the configured remotes, in git's order
RemoteLists ==
    { <<>>, <<<<"o", "r", "i", "g", "i", "n">>>>, <<<<"u", "p">>>>, <<<<"u", "p">>, <<"o", "r", "i", "g", "i", "n">>>>, <<<<"o", "r", "i", "g", "i", "n">>, <<"u", "p">>>> }  \* "origin", "origin", "origin"

\* what git symbolic-ref --quiet --short refs/remotes/<remote>/HEAD can answer:
\* the branch the remote's HEAD points at, nothing, or a failure (no such
\* symbolic ref)
SymbolicRefResults(remote) ==
    { [threw |-> FALSE, stdout |-> remote \o <<"/", "d", "e", "v">> \o <<"\n">>],  \* "/dev"
      [threw |-> FALSE, stdout |-> Empty],
      [threw |-> TRUE, stdout |-> Empty] }

fallbackBranchNames == <<<<"m", "a", "i", "n">>, <<"m", "a", "s", "t", "e", "r">>, <<"d", "e", "v", "e", "l", "o", "p">>, <<"t", "r", "u", "n", "k">>>>  \* "main", "master", "develop", "trunk"

\* the branches a repository can have under the fallback names: local ones and
\* remote-tracking ones of the remotes
BranchRefs ==
    { <<"r", "e", "f", "s", "/", "h", "e", "a", "d", "s", "/">> \o fallbackBranchNames[b] : b \in DOMAIN fallbackBranchNames }  \* "refs/heads/"
    \cup { <<"r", "e", "f", "s", "/", "r", "e", "m", "o", "t", "e", "s", "/">> \o r \o <<"/">> \o fallbackBranchNames[b] :  \* "refs/remotes/"
             r \in {<<"o", "r", "i", "g", "i", "n">>, <<"u", "p">>}, b \in DOMAIN fallbackBranchNames }  \* "origin"

\* repositories of every shape, asked for a plain diff of a clean worktree
Repos ==
    UNION { { [opts |-> PlainOptions, dirty |-> FALSE, remotes |-> remotes,
                heads |-> heads] :
                heads \in { h \in [SeqToSet(remotes) ->
                                     UNION { SymbolicRefResults(r) : r \in SeqToSet(remotes) }] :
                            \A r \in SeqToSet(remotes) : h[r] \in SymbolicRefResults(r) } } :
            remotes \in RemoteLists }

\* every command line, on a clean and on a dirty worktree of one repository
CommandLines ==
    { [opts |-> o, dirty |-> d, remotes |-> <<<<"o", "r", "i", "g", "i", "n">>>>,  \* "origin"
       heads |-> [r \in {<<"o", "r", "i", "g", "i", "n">>} |-> [threw |-> TRUE, stdout |-> Empty]]] :  \* "origin"
        o \in { PlainOptions, FilterOptions,
                Options(FALSE, TRUE, FALSE, FALSE, FALSE, FALSE),
                Options(FALSE, FALSE, TRUE, FALSE, FALSE, FALSE),
                Options(FALSE, FALSE, FALSE, TRUE, FALSE, TRUE),
                Options(FALSE, FALSE, FALSE, FALSE, TRUE, FALSE),
                Options(FALSE, FALSE, FALSE, FALSE, FALSE, TRUE),
                Options(TRUE, FALSE, FALSE, FALSE, TRUE, FALSE),
                Options(TRUE, FALSE, FALSE, FALSE, FALSE, TRUE) },
        d \in BOOLEAN }

getRemoteHeadRef(remote) ==
    LET ref == env.heads[remote]
    IN  IF ref.threw THEN Empty ELSE trim(ref.stdout)

\* the remotes as git lists them
preferredRemotesAsListed == env.remotes

preferredRemotes ==
    LET remoteNames == env.remotes
    IN  IF <<"o", "r", "i", "g", "i", "n">> \in SeqToSet(remoteNames)  \* "origin"
        THEN <<<<"o", "r", "i", "g", "i", "n">>>> \o SelectSeq(remoteNames, LAMBDA name : name # <<"o", "r", "i", "g", "i", "n">>)  \* "origin", "origin"
        ELSE remoteNames

\* getDefaultBranchRef: the first remote (origin first) whose HEAD is known;
\* else the first remote/branch that exists, remote by remote over the fallback
\* names; else the first fallback name that exists; else null
getDefaultBranchRef ==
    LET R == preferredRemotes
        n == Len(fallbackBranchNames)
        headRefs == [i \in 1..Len(R) |-> getRemoteHeadRef(R[i])]
        remoteRef(k) == R[((k - 1) \div n) + 1] \o <<"/">>
                          \o fallbackBranchNames[((k - 1) % n) + 1]
        remoteRefs == [k \in 1..(Len(R) * n) |->
                         IF refExistsAny(remoteRef(k)) THEN remoteRef(k) ELSE Empty]
        localRefs == [b \in 1..n |->
                        IF refExistsAny(fallbackBranchNames[b]) THEN fallbackBranchNames[b]
                        ELSE Empty]
        refs == headRefs \o remoteRefs \o localRefs
        found == { i \in DOMAIN refs : refs[i] # Empty }
    IN  IF found = {} THEN Empty ELSE refs[SetMin(found)]

NoBaseBranch ==
    DiffxError(<<Lit("Could not determine a base branch automatically.")>>
                 \o <<Lit(" Provide an explicit range (e.g., "), Lit("main"), Lit("..HEAD).")>>,
               INVALID_INPUT)

NoMergeBase(baseRef) ==
    DiffxError(<<Lit("Could not find a merge base with "), Val(baseRef), Lit(".")>>
                 \o <<Lit(" Provide an explicit range (e.g., "), Val(baseRef),
                      Lit("..HEAD).")>>,
               INVALID_INPUT)

\* resolveRefsForDefault: --index diffs as git does; a worktree with changes is
\* diffed against HEAD; a clean one goes to the automatic base
ResolveDefault ==
    /\ entry = "run"
    /\ pc = "start"
    /\ input = Empty
    /\ IF env.opts.index
       THEN /\ resolved' = NoCleanupRefs(Empty, Empty)
            /\ pc' = "output"
            /\ UNCHANGED callee
       ELSE IF env.dirty
       THEN /\ resolved' = NoCleanupRefs(<<"H", "E", "A", "D">>, Empty)  \* "HEAD"
            /\ pc' = "output"
            /\ UNCHANGED callee
       ELSE /\ pc' = "auto-base"
            /\ callee' = "resolveAutoBaseRefs"
            /\ UNCHANGED resolved
    /\ UNCHANGED <<parseVars, entry, env, peer, range, tempPrefix, loc, gitVars, output, pending,
                   cleanupLog, outcome>>

\* without the check of an empty answer: only a failing merge-base is an error
AutoBaseKeepsEmpty ==
    /\ pc = "auto-base"
    /\ LET baseRef == getDefaultBranchRef
       IN  IF baseRef = Empty
           THEN ResolverThrows(NoBaseBranch) /\ UNCHANGED mbLog
           ELSE \E result \in MergeBaseResults :
                  /\ mbLog' = Append(mbLog, [left |-> baseRef, right |-> <<"H", "E", "A", "D">>,  \* "HEAD"
                                             result |-> result])
                  /\ IF result.threw
                     THEN ResolverThrows(NoMergeBase(baseRef))
                     ELSE /\ resolved' = NoCleanupRefs(trim(result.stdout), <<"H", "E", "A", "D">>)  \* "HEAD"
                          /\ pc' = "output"
                          /\ UNCHANGED outcome
    /\ UNCHANGED <<tempPrefix, loc, repoRefs, fetchLog, deleteLog>>
    /\ ResolverFrame

\* resolveAutoBaseRefs: no base branch and no merge base are invalid input;
\* otherwise merge-base..HEAD
AutoBase ==
    /\ pc = "auto-base"
    /\ LET baseRef == getDefaultBranchRef
       IN  IF baseRef = Empty
           THEN ResolverThrows(NoBaseBranch) /\ UNCHANGED mbLog
           ELSE \E result \in MergeBaseResults :
                  /\ mbLog' = Append(mbLog, [left |-> baseRef, right |-> <<"H", "E", "A", "D">>,  \* "HEAD"
                                             result |-> result])
                  /\ IF result.threw \/ trim(result.stdout) = Empty
                     THEN ResolverThrows(NoMergeBase(baseRef))
                     ELSE /\ resolved' = NoCleanupRefs(trim(result.stdout), <<"H", "E", "A", "D">>)  \* "HEAD"
                          /\ pc' = "output"
                          /\ UNCHANGED outcome
    /\ UNCHANGED <<tempPrefix, loc, repoRefs, fetchLog, deleteLog>>
    /\ ResolverFrame

\* at most MaxBranches of the branches exist
InitDefault ==
    /\ parsed = None
    /\ peer = PeerIdle
    /\ tempPrefix = Empty
    /\ loc = [idx |-> 1, leftRefspec |-> [src |-> Empty, dst |-> Empty],
              rightRefspec |-> [src |-> Empty, dst |-> Empty], deepened |-> FALSE]
    /\ repoRefs \in { refs \in SUBSET BranchRefs : Cardinality(refs) <= MaxBranches }
    /\ fetchLog = <<>>
    /\ mbLog = <<>>
    /\ deleteLog = <<>>
    /\ resolved = None
    /\ output = "none"
    /\ pending = Running
    /\ cleanupLog = <<>>
    /\ outcome = Running
    /\ pc = "start"
    /\ input = Empty
    /\ callee = "none"
    /\ range = None
    /\ env \in Repos \cup CommandLines
    /\ entry = IF shouldUseGitPassThrough(env.opts, FALSE) THEN "passthrough" ELSE "run"

NextDefault ==
    \/ PassThroughParse
    \/ ResolveDefault
    \/ AutoBase
    \/ RunOutput
    \/ RunFinally
    \/ PassThroughOutput
    \/ PassThroughFinally

SpecDefault == InitDefault /\ [][NextDefault]_vars

\* ------------------------------------------------------------------------
\* Two invocations in one repository
\* ------------------------------------------------------------------------

\* the other invocation resolves a remote range: createTempRefPrefix
PeerBegin ==
    /\ peer.pc = "start"
    /\ \E now \in NowValues, bytes \in RandomBytes :
         peer' = [peer EXCEPT !.pc = "fetch", !.prefix = createTempRefPrefix(now, bytes)]
    /\ UNCHANGED <<parseVars, pc, entry, env, resVars, gitVars, resolved, output, pending,
                   cleanupLog, outcome>>

\* its fetchFromUrl of both refs into <prefix>/left and <prefix>/right; a
\* failure ends it
PeerFetch ==
    /\ peer.pc = "fetch"
    /\ LET dsts == {peer.prefix \o <<"/", "l", "e", "f", "t">>, peer.prefix \o <<"/", "r", "i", "g", "h", "t">>}  \* "/left", "/right"
       IN  \E ok \in BOOLEAN :
             IF ok
             THEN /\ repoRefs' = repoRefs \cup dsts
                  /\ peer' = [peer EXCEPT !.pc = "output", !.wrote = dsts]
             ELSE /\ repoRefs' = repoRefs
                  /\ peer' = [peer EXCEPT !.pc = "done"]
    /\ UNCHANGED <<parseVars, pc, entry, env, resVars, fetchLog, mbLog, deleteLog, resolved,
                   output, pending, cleanupLog, outcome>>

\* every temp ref of the repository is deleted, not only the two of the
\* invocation
PeerCleanupSweeps ==
    /\ peer.pc = "output"
    /\ LET swept == { r \in repoRefs : HasAt(r, TempRoot, 1) }
       IN  /\ repoRefs' = repoRefs \ swept
           /\ peer' = [peer EXCEPT !.pc = "done", !.gone = swept]
    /\ UNCHANGED <<parseVars, pc, entry, env, resVars, fetchLog, mbLog, deleteLog, resolved,
                   output, pending, cleanupLog, outcome>>

\* its cleanup after the output: deleteRefs([leftDestRef, rightDestRef]), a
\* failing deletion ignored
PeerCleanup ==
    /\ peer.pc = "output"
    /\ \E failing \in SUBSET peer.wrote :
         /\ repoRefs' = repoRefs \ (peer.wrote \ failing)
         /\ peer' = [peer EXCEPT !.pc = "done", !.gone = peer.wrote \ failing]
    /\ UNCHANGED <<parseVars, pc, entry, env, resVars, fetchLog, mbLog, deleteLog, resolved,
                   output, pending, cleanupLog, outcome>>

\* two invocations of the command line
InitTwo ==
    /\ Init
    /\ entry \in {"run", "passthrough"}

NextTwo ==
    \/ RunParse
    \/ PassThroughParse
    \/ ResolveLocal
    \/ RemoteBegin
    \/ RemoteFetch
    \/ GitUrlBegin
    \/ GitUrlFetchBoth
    \/ GitUrlFetchLeft
    \/ GitUrlFetchRight
    \/ PRBegin
    \/ PRFetch
    \/ PRRangeBegin
    \/ PRRangeFetchLeft
    \/ PRRangeFetchRight
    \/ MRBegin
    \/ MRFetch
    \/ CommitBegin
    \/ CommitFetch
    \/ PRChangesBegin
    \/ PRChangesFetch
    \/ CompareBegin
    \/ CompareFetchLeft
    \/ CompareFetchRight
    \/ CompareMergeBase
    \/ CompareDeepenLeft
    \/ CompareDeepenRight
    \/ RunOutput
    \/ RunFinally
    \/ PassThroughOutput
    \/ PassThroughFinally
    \/ PeerBegin
    \/ PeerFetch
    \/ PeerCleanup

SpecTwo == InitTwo /\ [][NextTwo]_vars

\* ------------------------------------------------------------------------
\* The matchers as a table, in the order parseRangeInput tries them
\* ------------------------------------------------------------------------

\* which matchers accept the input, by position in the order
Accepts(s) ==
    << parsePRRange(s).match, parseGitUrlRange(s).match, parseGitHubCompareUrl(s).match,
       parseGitHubPRChangesUrl(s).match, parseGitHubPRUrl(s).match,
       parseGitHubCommitUrl(s).match, parseGithubRefRange(s).match,
       parseGitlabRefRange(s).match, parsePRRef(s).match, parseMRRef(s).match,
       parseRemoteRefRange(s).match, parseLocalRefRange(s).match >>

\* the type each position returns
MatcherTags ==
    << "pr-range", "git-url-range", "github-compare-url", "github-pr-changes-url",
       "github-url", "github-commit-url", "git-url-range", "git-url-range", "pr-ref",
       "gitlab-mr-ref", "remote-range", "local-range" >>

\* the RefRange the matcher at position i returns for s
ProducedBy(i, s) ==
    CASE i = 1 -> PrRangeOf(parsePRRange(s))
      [] i = 2 -> GitUrlRangeOf(parseGitUrlRange(s))
      [] i = 3 -> CompareUrlOf(parseGitHubCompareUrl(s))
      [] i = 4 -> PrChangesUrlOf(parseGitHubPRChangesUrl(s))
      [] i = 5 -> PrUrlOf(parseGitHubPRUrl(s))
      [] i = 6 -> CommitUrlOf(parseGitHubCommitUrl(s))
      [] i = 7 -> ShorthandRangeOf(parseGithubRefRange(s), <<"g", "i", "t", "@", "g", "i", "t", "h", "u", "b", ".", "c", "o", "m", ":">>)  \* "git@github.com:"
      [] i = 8 -> ShorthandRangeOf(parseGitlabRefRange(s), <<"g", "i", "t", "@", "g", "i", "t", "l", "a", "b", ".", "c", "o", "m", ":">>)  \* "git@gitlab.com:"
      [] i = 9 -> PrRefOf(parsePRRef(s))
      [] i = 10 -> MrRefOf(parseMRRef(s))
      [] i = 11 -> RemoteRangeOf(parseRemoteRefRange(s))
      [] i = 12 -> LocalRangeOf(parseLocalRefRange(s))

Accepting(s) == With(Accepts(s), LAMBDA a : { i \in 1..Len(a) : a[i] })

FirstAccepting(s) == With(Accepting(s), LAMBDA A : IF A = {} THEN 0 ELSE SetMin(A))

\* ------------------------------------------------------------------------
\* Properties of the parser
\* ------------------------------------------------------------------------

\* C5: the RefRange parseRangeInput returns is the one produced by the first
\* matcher, in the order PR-range, git-URL-range, compare-URL, PR-changes-URL,
\* PR-URL, commit-URL, GitHub-shorthand-range, GitLab-shorthand-range, PR-ref,
\* MR-ref, remote-range, local-range, that accepts the input; two PR URLs joined
\* by ".." parse as pr-range.
FirstMatcherWins ==
    parsed # None =>
      /\ With(FirstAccepting(input), LAMBDA first :
              first # 0 => parsed = ProducedBy(first, input))
      /\ input = <<"h", "t", "t", "p", "s", ":", "/", "/", "g", "i", "t", "h", "u", "b", ".", "c", "o", "m", "/", "o", "/", "r", "/", "p", "u", "l", "l", "/", "1", ".", ".", "h", "t", "t", "p", "s", ":", "/", "/", "g", "i", "t", "h", "u", "b", ".", "c", "o", "m", "/", "o", "/", "r", "/", "p", "u", "l", "l", "/", "1">> => parsed.kind = "range" /\ parsed.type = "pr-range"  \* "https://github.com/o/r/pull/1..https://github.com/o/r/pull/1"

\* an input that the PR-range and the local-range matcher both accept
\* has been parsed
FirstMatcherWinsWitness ==
    /\ parsed # None
    /\ input = <<"h", "t", "t", "p", "s", ":", "/", "/", "g", "i", "t", "h", "u", "b", ".", "c", "o", "m", "/", "o", "/", "r", "/", "p", "u", "l", "l", "/", "1", ".", ".", "h", "t", "t", "p", "s", ":", "/", "/", "g", "i", "t", "h", "u", "b", ".", "c", "o", "m", "/", "o", "/", "r", "/", "p", "u", "l", "l", "/", "1">>  \* "https://github.com/o/r/pull/1..https://github.com/o/r/pull/1"
    /\ {1, 12} \subseteq Accepting(input)
    /\ parsed.type = "pr-range"

MentionsFormats(message) ==
    \A i \in 1..Len(SupportedFormats) :
       \E j \in 1..Len(message) : message[j] = SupportedFormats[i]

\* C6: an input some matcher accepts is parsed into a RefRange that carries the
\* tag of a matcher accepting it; any other input raises InvalidInput, whose
\* message names the input and lists the supported formats.
ParserTotality ==
    parsed # None =>
      With(Accepting(input), LAMBDA A :
        IF A # {}
        THEN /\ parsed.kind = "range"
             /\ \E i \in A : parsed.type = MatcherTags[i]
        ELSE /\ parsed.kind = "error"
             /\ parsed.exitCode = INVALID_INPUT
             /\ \E j \in 1..Len(parsed.message) : parsed.message[j] = Val(input)
             /\ MentionsFormats(parsed.message))

\* a non-empty input no matcher accepts has been rejected
ParserTotalityWitness ==
    /\ parsed # None
    /\ input # Empty
    /\ Accepting(input) = {}
    /\ parsed.kind = "error"

\* C7 (as claimed): no input is accepted by two or more matchers.
NoInputAmbiguous == parsed # None => Cardinality(Accepting(input)) <= 1

\* C7 (amended): an input is rejected with InvalidInput exactly when no matcher
\* accepts it; an input that several matchers accept is parsed as the variant of
\* the one that comes first in the order.
AmbiguityResolvedByOrder ==
    parsed # None =>
      With(Accepting(input), LAMBDA A :
        /\ (A = {}) <=> (parsed.kind = "error")
        /\ parsed.kind = "error" => parsed.exitCode = INVALID_INPUT
        /\ Cardinality(A) >= 2 =>
             /\ parsed.kind = "range"
             /\ parsed.type = MatcherTags[SetMin(A)])

\* an input that the remote-range and the local-range matcher both accept has
\* been parsed as remote-range
AmbiguityResolvedByOrderWitness ==
    /\ parsed # None
    /\ Accepting(input) = {11, 12}
    /\ parsed.type = "remote-range"

\* ------------------------------------------------------------------------
\* Properties of an invocation
\* ------------------------------------------------------------------------

Cli == entry \in {"run", "passthrough"}

HoldsCleanup == resolved # None /\ resolved.cleanup

\* C1: when resolution returned a cleanup callback, the caller invokes it
\* exactly once, and only after output generation has finished (normally or by
\* raising), on the standard path and on the pass-through path; without a
\* callback nothing is invoked.
CleanupOnceAfterOutput ==
    /\ Cli => Len(cleanupLog) <= 1
    /\ \A i \in 1..Len(cleanupLog) :
         /\ Cli => cleanupLog[i].after \in {"ok", "failed"}
         /\ HoldsCleanup
    /\ (Cli /\ pc = "done" /\ HoldsCleanup) => Len(cleanupLog) = 1

\* a pass-through invocation whose git diff failed has ended, with the callback
\* invoked once
CleanupOnceAfterOutputWitness ==
    /\ entry = "passthrough"
    /\ pc = "done"
    /\ HoldsCleanup
    /\ output = "failed"
    /\ Len(cleanupLog) = 1
    /\ cleanupLog[1].after = "failed"

\* the destinations of the fetches that succeeded
Created ==
    UNION { Dsts(fetchLog[i].refspecs) : i \in { j \in 1..Len(fetchLog) : fetchLog[j].ok } }

\* no deletion failed and no cleanup callback rejected
DeletionSucceeded ==
    /\ \A i \in 1..Len(deleteLog) : deleteLog[i].failed = {}
    /\ \A i \in 1..Len(cleanupLog) : ~cleanupLog[i].rejected

\* C2 (as claimed): at the end of an invocation in which no deletion failed,
\* no temporary ref a resolver created is left in the repository.
TempRefsDeletedAtEnd ==
    (Cli /\ pc = "done" /\ DeletionSucceeded) => repoRefs \cap Created = {}

\* refs/diffx/tmp/<base36-time>-<16 hex digits>
WellFormedPrefix(p) ==
    /\ HasAt(p, TempRoot, 1)
    /\ With(Drop(p, Len(TempRoot)), LAMBDA rest :
         With(indexOf(rest, <<"-">>), LAMBDA i :
           /\ i > 1
           /\ \A k \in 1..(i - 1) : \E d \in 1..36 : rest[k] = Base36Digits[d]
           /\ Len(rest) - i = 16
           /\ \A k \in (i + 1)..Len(rest) : \E d \in 1..16 : rest[k] = Base36Digits[d]))

Under(ref, prefix) == HasAt(ref, prefix \o Slash, 1)

\* C3: every destination of a fetch and every ref handed to deletion lies
\* under the prefix refs/diffx/tmp/<base36-time>-<16-hex> this resolution
\* generated; the refs handed to deletion are destinations of its own fetches;
\* the caller's branches and tags stay as they were.
OnlyOwnTempRefsTouched ==
    /\ \A i \in 1..Len(fetchLog) : \A d \in Dsts(fetchLog[i].refspecs) :
         WellFormedPrefix(tempPrefix) /\ Under(d, tempPrefix)
    /\ \A i \in 1..Len(deleteLog) : \A d \in SeqToSet(deleteLog[i].refs) :
         /\ WellFormedPrefix(tempPrefix) /\ Under(d, tempPrefix)
         /\ d \in Created
    /\ CallerRefs \subseteq repoRefs
    /\ \A r \in repoRefs \ CallerRefs : Under(r, tempPrefix)

\* a standard invocation has fetched into, and deleted, refs under its prefix
OnlyOwnTempRefsTouchedWitness ==
    /\ entry = "run"
    /\ pc = "done"
    /\ Len(fetchLog) >= 2
    /\ Len(deleteLog) = 1
    /\ Len(deleteLog[1].refs) >= 2
    /\ repoRefs = CallerRefs

\* C4: a rejection of the cleanup callback never surfaces: the invocation ends
\* the way output generation ended, successfully if it succeeded and with its
\* error E if it raised E.
CleanupErrorsDiscarded ==
    (Cli /\ pc = "done" /\ output # "none") =>
      /\ output = "ok" => outcome = Succeeded
      /\ output = "failed" => outcome.kind = "error" /\ outcome = pending

\* the callback rejected after git diff had failed, and the invocation ended
\* with the error of git diff
CleanupErrorsDiscardedWitness ==
    /\ Cli
    /\ pc = "done"
    /\ output = "failed"
    /\ Len(cleanupLog) = 1
    /\ cleanupLog[1].rejected
    /\ outcome \in PassThroughOutputErrors

\* ------------------------------------------------------------------------
\* Properties of compare-URL resolution and of the resolvers' errors
\* ------------------------------------------------------------------------

InCompare == callee = "resolveGitHubCompareRefs"

\* the resolver has returned or thrown
ResolutionEnded == pc \in {"output", "finally", "done"}

FirstLookupFailed == Len(mbLog) >= 1 /\ getMergeBase(mbLog[1].result) = Empty

DeepFetches == { i \in 1..Len(fetchLog) : fetchLog[i].depth = DeepenDepth }

ShallowOk ==
    { fetchLog[i].refspecs : i \in { j \in 1..Len(fetchLog) :
                                        fetchLog[j].depth = ShallowDepth /\ fetchLog[j].ok } }

\* C8 (as claimed): whenever the first merge-base lookup fails, both refspecs
\* are re-fetched at depth 200 and the lookup is made exactly once more.
RetryAlwaysFollowsFailure ==
    (InCompare /\ ResolutionEnded /\ FirstLookupFailed) =>
      /\ Cardinality(DeepFetches) = 2
      /\ Len(mbLog) = 2

\* C8 (amended): a resolution makes at most two merge-base lookups and at most
\* one re-fetch cycle at depth 200, of the refspecs that had been fetched
\* successfully, and only after the first lookup failed.  When the first lookup
\* failed, either a re-fetch failed, and the resolution failed with GitError
\* after that single lookup, or both re-fetches succeeded and the lookup was made
\* once more: the resolution succeeded if that lookup did, and failed with
\* GitError if it did not.
MergeBaseRetriedOnce ==
    InCompare =>
      /\ Len(mbLog) <= 2
      /\ Cardinality(DeepFetches) <= 2
      /\ \A i \in DeepFetches : FirstLookupFailed /\ fetchLog[i].refspecs \in ShallowOk
      /\ Len(mbLog) = 2 =>
           /\ FirstLookupFailed
           /\ Cardinality(DeepFetches) = 2
           /\ \A i \in DeepFetches : fetchLog[i].ok
      /\ (ResolutionEnded /\ FirstLookupFailed) =>
           \/ /\ \E i \in DeepFetches : ~fetchLog[i].ok
              /\ Len(mbLog) = 1
              /\ resolved = None
              /\ outcome = CompareFailure(FetchFailure)
           \/ /\ Len(mbLog) = 2
              /\ IF getMergeBase(mbLog[2].result) # Empty
                 THEN resolved # None
                 ELSE resolved = None /\ outcome = CompareFailure(MergeBaseFailure)

\* the first lookup failed, both refs were re-fetched, and the second lookup
\* made the resolution succeed
MergeBaseRetriedOnceWitness ==
    /\ InCompare
    /\ FirstLookupFailed
    /\ Cardinality(DeepFetches) = 2
    /\ Len(mbLog) = 2
    /\ resolved # None

\* C9: when compare-URL resolution succeeds, the left endpoint is the merge
\* base computed for the fetched left and right temp refs (the trimmed output
\* of the lookup), the right endpoint is the fetched right temp ref, and the
\* fetched left ref is not the left endpoint.
CompareReturnsMergeBase ==
    (InCompare /\ resolved # None) =>
      /\ Len(mbLog) >= 1
      /\ ~mbLog[Len(mbLog)].result.threw
      /\ resolved.left = trim(mbLog[Len(mbLog)].result.stdout)
      /\ resolved.left # Empty
      /\ mbLog[Len(mbLog)].left = tempPrefix \o <<"/", "l", "e", "f", "t">> \o Slash \o range.leftRef  \* "/left"
      /\ mbLog[Len(mbLog)].right = tempPrefix \o <<"/", "r", "i", "g", "h", "t">> \o Slash \o range.rightRef  \* "/right"
      /\ {mbLog[Len(mbLog)].left, mbLog[Len(mbLog)].right} \subseteq Created
      /\ resolved.right = mbLog[Len(mbLog)].right
      /\ resolved.left # mbLog[Len(mbLog)].left

\* a cross-fork compare URL has been resolved to merge-base..right
CompareReturnsMergeBaseWitness ==
    /\ InCompare
    /\ entry = "run"
    /\ Has(range, "rightOwner")
    /\ resolved # None
    /\ resolved.left = <<"0", "a", "1", "b", "2", "c", "3">>  \* "0a1b2c3"
    /\ Len(mbLog) = 1

\* a fetch or a merge-base lookup failed
EnvironmentFailed ==
    \/ \E i \in 1..Len(fetchLog) : ~fetchLog[i].ok
    \/ \E i \in 1..Len(mbLog) : getMergeBase(mbLog[i].result) = Empty

\* C10 (as claimed): a resolver reports a malformed owner/repo as InvalidInput,
\* and raises GitError only after a failure of the environment.
MalformedOwnerRepoIsInvalidInput ==
    (pc = "done" /\ output = "none" /\ outcome.kind = "error" /\ range # None) =>
      /\ (Has(range, "ownerRepo") /\ BadOwnerRepo(range.ownerRepo)) =>
           outcome.exitCode = INVALID_INPUT
      /\ outcome.exitCode = GIT_ERROR => EnvironmentFailed

\* ------------------------------------------------------------------------
\* Properties of the endpoints handed to the diff
\* ------------------------------------------------------------------------

\* the name a revision expression starts from: "^" and "^1" select a parent
RevBase(rev) ==
    IF Len(rev) >= 2 /\ HasAt(rev, <<"^", "1">>, Len(rev) - 1) THEN Take(rev, Len(rev) - 2)
    ELSE IF Len(rev) >= 1 /\ rev[Len(rev)] = "^" THEN Take(rev, Len(rev) - 1)
    ELSE rev

\* the revision names a commit of the repository: a ref that exists (or a
\* parent of it), or a commit id that git merge-base printed
ResolvesToCommit(rev) ==
    \/ refExistsAny(RevBase(rev))
    \/ \E i \in 1..Len(mbLog) : rev # Empty /\ rev = getMergeBase(mbLog[i].result)

\* C11 (as claimed): when diff generation starts for an explicit range, on the
\* standard path and on the pass-through path, both endpoints resolve to a
\* commit (each was verified through the git client beforehand).
EndpointsVerifiedBeforeDiff ==
    (pc = "output" /\ parsed.kind = "range") =>
      /\ ResolvesToCommit(resolved.left)
      /\ ResolvesToCommit(resolved.right)

\* ------------------------------------------------------------------------
\* Failures of the plumbing calls
\* ------------------------------------------------------------------------

FailedFetches == { i \in 1..Len(fetchLog) : ~fetchLog[i].ok }

FailedLookups == { i \in 1..Len(mbLog) : getMergeBase(mbLog[i].result) = Empty }

\* the resolver threw a GitError and returned nothing
ResolutionFailed ==
    /\ pc = "done"
    /\ resolved = None
    /\ outcome.kind = "error"
    /\ outcome.exitCode = GIT_ERROR

\* the first merge-base lookup of compare-URL resolution, whose failure is
\* followed by the deepening
DeepeningLookup(i) == InCompare /\ i = 1

\* a failure the resolver does not survive, as claimed
ClaimedFinalFailure ==
    \/ FailedFetches # {}
    \/ \E i \in FailedLookups : ~DeepeningLookup(i)

HeadsCandidate(i) ==
    /\ InCompare
    /\ fetchLog[i].depth = ShallowDepth
    /\ HasAt(fetchLog[i].refspecs[1].src, <<"r", "e", "f", "s", "/", "h", "e", "a", "d", "s", "/">>, 1)  \* "refs/heads/"

\* the candidate fetchRef tries after the one fetched at i
TagsCandidateOf(i) ==
    [url |-> fetchLog[i].url, depth |-> ShallowDepth,
     refspecs |-> << Refspec(<<"r", "e", "f", "s", "/", "t", "a", "g", "s", "/">> \o Drop(fetchLog[i].refspecs[1].src, 11),  \* "refs/tags/"
                             fetchLog[i].refspecs[1].dst) >>]

\* a failure the resolver does not survive
FinalFailure ==
    \/ \E i \in FailedFetches : ~HeadsCandidate(i)
    \/ \E i \in FailedLookups : ~DeepeningLookup(i)

Resolved == resolved # None

\* "pull" for a GitHub PR, "merge-requests" for a GitLab MR
RequestDir ==
    IF range.type = "gitlab-mr-ref" THEN <<"m", "e", "r", "g", "e", "-", "r", "e", "q", "u", "e", "s", "t", "s">> ELSE <<"p", "u", "l", "l">>  \* "merge-requests", "pull"

\* "/<dir>/<N>/<name>"
RequestPath(name) ==
    Slash \o RequestDir \o Slash \o toStringRadix(range.prNumber, 10) \o Slash \o name

\* C13: when a pr-ref, a github-url or a gitlab-mr-ref has been resolved, one
\* fetch was made, at depth 2, of refs/pull/N/head and refs/pull/N/merge
\* (refs/merge-requests/N/... for GitLab) into <prefix>/pull/N/head and
\* <prefix>/pull/N/merge; right is the temp ref ending in /pull/N/merge and
\* left is right followed by "^1".
PRDiffsMergeAgainstFirstParent ==
    (Resolved /\ range # None
       /\ range.type \in {"pr-ref", "github-url", "gitlab-mr-ref"}) =>
      /\ Len(fetchLog) = 1
      /\ fetchLog[1].ok
      /\ fetchLog[1].depth = 2
      /\ fetchLog[1].refspecs =
           << Refspec(<<"r", "e", "f", "s">> \o RequestPath(<<"h", "e", "a", "d">>), tempPrefix \o RequestPath(<<"h", "e", "a", "d">>)),  \* "refs", "head", "head"
              Refspec(<<"r", "e", "f", "s">> \o RequestPath(<<"m", "e", "r", "g", "e">>), tempPrefix \o RequestPath(<<"m", "e", "r", "g", "e">>)) >>  \* "refs", "merge", "merge"
      /\ resolved.right = tempPrefix \o RequestPath(<<"m", "e", "r", "g", "e">>)  \* "merge"
      /\ resolved.left = resolved.right \o <<"^", "1">>
      /\ tempPrefix # Empty

\* github:o/r#2 has been resolved
PRDiffsMergeAgainstFirstParentWitness ==
    /\ Resolved
    /\ range # None
    /\ range.type = "pr-ref"
    /\ range.prNumber = 2
    /\ resolved.left = resolved.right \o <<"^", "1">>
    /\ fetchLog[1].depth = 2

\* https://github.com/<owner>/<repo>.git
RepoUrl(owner, repo) == <<"h", "t", "t", "p", "s", ":", "/", "/", "g", "i", "t", "h", "u", "b", ".", "c", "o", "m", "/">> \o owner \o Slash \o repo \o <<".", "g", "i", "t">>  \* "https://github.com/", ".git"

\* the fetches into <prefix>/left/... and into <prefix>/right/...
FetchesInto(side) ==
    { i \in 1..Len(fetchLog) :
        \A j \in 1..Len(fetchLog[i].refspecs) :
          Under(fetchLog[i].refspecs[j].dst, tempPrefix \o Slash \o side) }

\* C14: in compare-URL resolution every fetch of the left ref goes to the
\* URL's base owner/repo; every fetch of the right ref goes to the owner/repo
\* named by the cross-fork syntax (owner:repo:ref or owner:repo/ref) when the
\* right side uses it, and to the base owner/repo otherwise.  Every fetch is
\* one of the two.
CrossForkRightFromFork ==
    (InCompare /\ Cli) =>
      /\ FetchesInto(<<"l", "e", "f", "t">>) \cup FetchesInto(<<"r", "i", "g", "h", "t">>) = 1..Len(fetchLog)  \* "left", "right"
      /\ \A i \in FetchesInto(<<"l", "e", "f", "t">>) :  \* "left"
           fetchLog[i].url = <<"h", "t", "t", "p", "s", ":", "/", "/", "g", "i", "t", "h", "u", "b", ".", "c", "o", "m", "/">> \o range.ownerRepo \o <<".", "g", "i", "t">>  \* "https://github.com/", ".git"
      /\ \A i \in FetchesInto(<<"r", "i", "g", "h", "t">>) :  \* "right"
           fetchLog[i].url =
             IF "rightOwner" \in DOMAIN range
             THEN RepoUrl(range.rightOwner, range.rightRepo)
             ELSE <<"h", "t", "t", "p", "s", ":", "/", "/", "g", "i", "t", "h", "u", "b", ".", "c", "o", "m", "/">> \o range.ownerRepo \o <<".", "g", "i", "t">>  \* "https://github.com/", ".git"
      /\ input = <<"h", "t", "t", "p", "s", ":", "/", "/", "g", "i", "t", "h", "u", "b", ".", "c", "o", "m", "/", "o", "/", "r", "/", "c", "o", "m", "p", "a", "r", "e", "/", "a", "b", "c", "d", "e", "f", "1", ".", ".", ".", "x", ":", "y", ":", "c", "d">> =>  \* "https://github.com/o/r/compare/abcdef1...x:y:cd"
           /\ \A i \in FetchesInto(<<"l", "e", "f", "t">>) : fetchLog[i].url = RepoUrl(<<"o">>, <<"r">>)  \* "left"
           /\ \A i \in FetchesInto(<<"r", "i", "g", "h", "t">>) : fetchLog[i].url = RepoUrl(<<"x">>, <<"y">>)  \* "right"
      /\ input = <<"h", "t", "t", "p", "s", ":", "/", "/", "g", "i", "t", "h", "u", "b", ".", "c", "o", "m", "/", "o", "/", "r", "/", "c", "o", "m", "p", "a", "r", "e", "/", "a", "b", ".", ".", ".", "x", ":", "y", "/", "c", "d">> =>  \* "https://github.com/o/r/compare/ab...x:y/cd"
           /\ \A i \in FetchesInto(<<"l", "e", "f", "t">>) : fetchLog[i].url = RepoUrl(<<"o">>, <<"r">>)  \* "left"
           /\ \A i \in FetchesInto(<<"r", "i", "g", "h", "t">>) : fetchLog[i].url = RepoUrl(<<"x">>, <<"y">>)  \* "right"
      /\ input = <<"h", "t", "t", "p", "s", ":", "/", "/", "g", "i", "t", "h", "u", "b", ".", "c", "o", "m", "/", "o", "/", "r", "/", "c", "o", "m", "p", "a", "r", "e", "/", "a", "b", ".", ".", ".", "c", "d">> =>  \* "https://github.com/o/r/compare/ab...cd"
           \A i \in 1..Len(fetchLog) : fetchLog[i].url = RepoUrl(<<"o">>, <<"r">>)

\* a cross-fork compare URL has been resolved: the left ref came from o/r and
\* the right ref from x/y
CrossForkRightFromForkWitness ==
    /\ InCompare
    /\ Cli
    /\ Resolved
    /\ "rightOwner" \in DOMAIN range
    /\ \E i \in FetchesInto(<<"l", "e", "f", "t">>) : fetchLog[i].url = RepoUrl(<<"o">>, <<"r">>)  \* "left"
    /\ \E i \in FetchesInto(<<"r", "i", "g", "h", "t">>) : fetchLog[i].url = RepoUrl(<<"x">>, <<"y">>)  \* "right"

InPRRange == callee = "resolvePRRangeRefs"

\* "refs/pull/<N>/<name>" and "<prefix>/<side>/pull/<N>/<name>"
PullSrc(pr, name) ==
    <<"r", "e", "f", "s", "/", "p", "u", "l", "l", "/">> \o toStringRadix(pr.prNumber, 10) \o Slash \o name  \* "refs/pull/"
PullDst(side, pr, name) ==
    tempPrefix \o Slash \o side \o <<"/", "p", "u", "l", "l", "/">> \o toStringRadix(pr.prNumber, 10) \o Slash \o name  \* "/pull/"

SideRefspecs(side, pr) ==
    << Refspec(PullSrc(pr, <<"h", "e", "a", "d">>), PullDst(side, pr, <<"h", "e", "a", "d">>)),  \* "head", "head"
       Refspec(PullSrc(pr, <<"m", "e", "r", "g", "e">>), PullDst(side, pr, <<"m", "e", "r", "g", "e">>)) >>  \* "merge", "merge"

InRemote == callee = "resolveRemoteRefs"

\* C16: a resolved remote-range made exactly one fetch, at depth 1, from
\* https://github.com/<owner>/<repo>.git, with two refspecs: the left ref into
\* <prefix>/left and the right ref into <prefix>/right, two distinct temp refs
\* under the one generated prefix; these two are returned as left and right,
\* together with a cleanup.
RemoteRangeOneShallowFetch ==
    (InRemote /\ Resolved) =>
      /\ Len(fetchLog) = 1
      /\ fetchLog[1].ok
      /\ fetchLog[1].depth = 1
      /\ fetchLog[1].url = <<"h", "t", "t", "p", "s", ":", "/", "/", "g", "i", "t", "h", "u", "b", ".", "c", "o", "m", "/">> \o range.ownerRepo \o <<".", "g", "i", "t">>  \* "https://github.com/", ".git"
      /\ Len(fetchLog[1].refspecs) = 2
      /\ range.left = range.ownerRepo \o <<"@">> \o fetchLog[1].refspecs[1].src
      /\ range.right = range.ownerRepo \o <<"@">> \o fetchLog[1].refspecs[2].src
      /\ fetchLog[1].refspecs[1].dst = tempPrefix \o <<"/", "l", "e", "f", "t">>  \* "/left"
      /\ fetchLog[1].refspecs[2].dst = tempPrefix \o <<"/", "r", "i", "g", "h", "t">>  \* "/right"
      /\ resolved.left = fetchLog[1].refspecs[1].dst
      /\ resolved.right = fetchLog[1].refspecs[2].dst
      /\ resolved.left # resolved.right
      /\ resolved.cleanup
      /\ WellFormedPrefix(tempPrefix)

\* o/r@ab..o/r@cd has been resolved with one fetch of ab and cd
RemoteRangeOneShallowFetchWitness ==
    /\ InRemote
    /\ Resolved
    /\ Len(fetchLog) = 1
    /\ fetchLog[1].refspecs[1].src = <<"a", "b">>
    /\ fetchLog[1].refspecs[2].src = <<"c", "d">>
    /\ fetchLog[1].url = RepoUrl(<<"o">>, <<"r">>)

\* ------------------------------------------------------------------------
\* The cleanup callback
\* ------------------------------------------------------------------------

\* C17: when the cleanup a remote-fetching resolver returned is invoked, ref
\* deletion is called once, with each temp ref the resolution fetched into
\* exactly once and with nothing else: the two returned refs for a
\* remote-range, the four head and merge temp refs for a pr-range.
CleanupDeletesWhatWasFetched ==
    \A k \in 1..Len(deleteLog) :
      /\ Len(deleteLog) = Cardinality({ c \in 1..Len(cleanupLog) : ~cleanupLog[c].rejected })
      /\ SeqToSet(deleteLog[k].refs) = Created
      /\ Cardinality(Created) = Len(deleteLog[k].refs)
      /\ Created = UNION { Dsts(fetchLog[i].refspecs) : i \in 1..Len(fetchLog) }
      /\ InRemote => deleteLog[k].refs = <<resolved.left, resolved.right>>
      /\ InPRRange =>
           Created = { PullDst(side, IF side = <<"l", "e", "f", "t">> THEN range.leftPr ELSE range.rightPr, name) :  \* "left"
                         side \in {<<"l", "e", "f", "t">>, <<"r", "i", "g", "h", "t">>}, name \in {<<"h", "e", "a", "d">>, <<"m", "e", "r", "g", "e">>} }  \* "left", "right", "head", "merge"

\* the cleanup of a resolved pr-range has been invoked: four refs were handed
\* to deletion
CleanupDeletesWhatWasFetchedWitness ==
    /\ InPRRange
    /\ Cli
    /\ Len(deleteLog) = 1
    /\ Len(deleteLog[1].refs) = 4
    /\ Cardinality(Created) = 4

\* the refs an earlier call of the cleanup failed to delete
LeftBehind == deleteLog[Len(deleteLog)].failed

LocalEnded ==
    /\ callee = "resolveLocalRefs"
    /\ range.type = "local-range"
    /\ ResolutionEnded

\* nothing in the repository is named by the ref
Missing(ref) == ~refExistsAny(normalizeRef(ref))

\* C19: resolveLocalRefs raises InvalidInput naming the left side, and not the
\* right, whenever the left ref does not exist, also when the right ref is
\* missing as well; it raises InvalidInput naming the right side when only the
\* right ref is missing.  The ref is named as it was given.
MissingSideNamed ==
    LocalEnded =>
      /\ Missing(range.left) =>
           outcome = [kind |-> "error", exitCode |-> INVALID_INPUT,
                      message |-> <<Lit("Left ref does not exist: "), Val(range.left)>>]
      /\ (~Missing(range.left) /\ Missing(range.right)) =>
           outcome = [kind |-> "error", exitCode |-> INVALID_INPUT,
                      message |-> <<Lit("Right ref does not exist: "), Val(range.right)>>]
      /\ (Missing(range.left) \/ Missing(range.right)) <=> resolved = None

\* both refs of ab..cd are missing, and the error names ab
MissingSideNamedWitness ==
    /\ LocalEnded
    /\ range.left = <<"a", "b">>
    /\ range.right = <<"c", "d">>
    /\ Missing(range.left)
    /\ Missing(range.right)
    /\ outcome.kind = "error"
    /\ outcome.message = <<Lit("Left ref does not exist: "), Val(<<"a", "b">>)>>

\* the invocation is about a local range
LocalRange ==
    \/ callee = "resolveLocalRefs"
    \/ parsed.kind = "range" /\ parsed.type = "local-range"

\* C20: resolving a local range fetches nothing, looks up no merge base,
\* generates no temp prefix, creates and deletes no ref, and returns no
\* cleanup; main..main, with main existing, resolves to left = "main" and
\* right = "main".
LocalResolutionIsPure ==
    LocalRange =>
      /\ fetchLog = <<>>
      /\ mbLog = <<>>
      /\ deleteLog = <<>>
      /\ cleanupLog = <<>>
      /\ tempPrefix = Empty
      /\ repoRefs = CallerRefs
      /\ Resolved => ~resolved.cleanup
      /\ (LocalEnded /\ range.left = <<"m", "a", "i", "n">> /\ range.right = <<"m", "a", "i", "n">>) =>  \* "main", "main"
           /\ outcome = Succeeded
           /\ resolved.left = <<"m", "a", "i", "n">>  \* "main"
           /\ resolved.right = <<"m", "a", "i", "n">>  \* "main"

\* main..main has been resolved
LocalResolutionIsPureWitness ==
    /\ LocalEnded
    /\ range.left = <<"m", "a", "i", "n">>  \* "main"
    /\ range.right = <<"m", "a", "i", "n">>  \* "main"
    /\ Resolved
    /\ resolved.left = <<"m", "a", "i", "n">>  \* "main"
    /\ ~resolved.cleanup

\* ------------------------------------------------------------------------
\* The automatic base
\* ------------------------------------------------------------------------

AutoBaseDone == callee = "resolveAutoBaseRefs" /\ pc # "auto-base"

\* err is invalid input and its message ends in the suggested explicit range
SuggestsRange(err, example) ==
    /\ err.kind = "error"
    /\ err.exitCode = INVALID_INPUT
    /\ \E i \in 1..(Len(err.message) - 2) :
         SubSeq(err.message, i, i + 2)
           = <<Lit(" Provide an explicit range (e.g., "), example, Lit("..HEAD).")>>

\* C21: resolveAutoBaseRefs fails as invalid input, with a message that suggests
\* an explicit range, when no default branch is found or when merge-base of the
\* default branch and HEAD fails or prints nothing; otherwise it returns that
\* merge base as left and HEAD as right
AutoBaseFailsOrReturnsMergeBase ==
    AutoBaseDone =>
      LET baseRef == getDefaultBranchRef
      IN  IF baseRef = Empty
          THEN /\ mbLog = <<>>
               /\ resolved = None
               /\ SuggestsRange(outcome, Lit("main"))
          ELSE /\ Len(mbLog) = 1
               /\ mbLog[1].left = baseRef
               /\ mbLog[1].right = <<"H", "E", "A", "D">>  \* "HEAD"
               /\ IF mbLog[1].result.threw \/ trim(mbLog[1].result.stdout) = Empty
                  THEN /\ resolved = None
                       /\ SuggestsRange(outcome, Val(baseRef))
                  ELSE /\ resolved # None
                       /\ resolved.left = trim(mbLog[1].result.stdout)
                       /\ resolved.right = <<"H", "E", "A", "D">>  \* "HEAD"
                       /\ outcome.kind = "error" => outcome.exitCode # INVALID_INPUT

\* a merge-base that printed only a line break was refused
AutoBaseFailsOrReturnsMergeBaseWitness ==
    /\ AutoBaseDone
    /\ Len(mbLog) = 1
    /\ mbLog[1].result = [threw |-> FALSE, stdout |-> <<"\n">>]
    /\ SuggestsRange(outcome, Val(mbLog[1].left))

\* ------------------------------------------------------------------------
\* What is diffed without a range argument
\* ------------------------------------------------------------------------

\* the diff has the working tree on its right side (git diff with one revision
\* or none)
DiffsWorktree == resolved # None /\ resolved.right = Empty

\* C23: without a range argument a worktree with local changes is what is
\* diffed, and the automatic base is used exactly when the worktree is clean
\* (--index, which asks for git's own behaviour, aside)
AutoBaseExactlyWhenClean ==
    (input = Empty /\ entry \in {"run", "passthrough"} /\ pc # "start") =>
      /\ env.dirty => DiffsWorktree
      /\ ~env.opts.index => (callee = "resolveAutoBaseRefs" <=> ~env.dirty)

\* ------------------------------------------------------------------------
\* Exit codes
\* ------------------------------------------------------------------------

\* process.exit(diffxError.exitCode) for an error that reaches bin; a process
\* that ends without one exits with 0
exitCode == IF outcome.kind = "error" THEN outcome.exitCode ELSE 0

UnsupportedFormat == Cli /\ pc = "done" /\ parsed # None /\ parsed.kind = "error"

HexToken(ref) ==
    /\ Len(ref) \in 7..40
    /\ \A i \in 1..Len(ref) :
         ref[i] \in {"0", "1", "2", "3", "4", "5", "6", "7", "8", "9", "a", "b", "c", "d", "e",
                     "f", "A", "B", "C", "D", "E", "F"}

\* the shallow fetches into target, in the order they were made
FetchesOf(target) ==
    SelectSeq(fetchLog, LAMBDA f : /\ f.depth = 1
                                   /\ Len(f.refspecs) = 1
                                   /\ f.refspecs[1].dst = target)

\* the sources the fetches of ref into target went through, and where they ended
LadderOf(ref, target) ==
    LET tried == FetchesOf(target)
        srcs == [i \in 1..Len(tried) |-> tried[i].refspecs[1].src]
    IN  /\ \A i \in 1..Len(tried) : i < Len(tried) => ~tried[i].ok
        /\ IF HexToken(ref)
           THEN srcs \in {<<>>, <<ref>>}
           ELSE srcs \in {<<>>, <<<<"r", "e", "f", "s", "/", "h", "e", "a", "d", "s", "/">> \o ref>>,  \* "refs/heads/"
                          <<<<"r", "e", "f", "s", "/", "h", "e", "a", "d", "s", "/">> \o ref, <<"r", "e", "f", "s", "/", "t", "a", "g", "s", "/">> \o ref>>}  \* "refs/heads/", "refs/tags/"

\* every candidate of ref was fetched into target and failed
LadderExhausted(ref, target) ==
    LET tried == FetchesOf(target)
    IN  /\ Len(tried) = IF HexToken(ref) THEN 1 ELSE 2
        /\ \A i \in 1..Len(tried) : ~tried[i].ok

InGitUrl == callee = "resolveGitUrlRefs" /\ tempPrefix # Empty

Fetch(url, refspecs, depth) == [url |-> url, refspecs |-> refspecs, depth |-> depth]

\* the fetches a git-URL range calls for
GitUrlPlan ==
    LET l == Refspec(range.left, tempPrefix \o <<"/", "l", "e", "f", "t">>)  \* "/left"
        r == Refspec(range.right, tempPrefix \o <<"/", "r", "i", "g", "h", "t">>)  \* "/right"
    IN  IF range.leftGitUrl = range.rightGitUrl
        THEN <<Fetch(range.leftGitUrl, <<l, r>>, 1)>>
        ELSE <<Fetch(range.leftGitUrl, <<l>>, 1), Fetch(range.rightGitUrl, <<r>>, 1)>>

\* C26: git-URL resolution issues one depth-1 fetch with both refspecs when the
\* two URLs are the same, and otherwise two depth-1 fetches of one refspec
\* each, the left URL's before the right URL's; a resolution that returns has
\* issued all of them, one that fails has stopped at the fetch that failed
GitUrlOneFetchOrTwo ==
    InGitUrl =>
      /\ Len(fetchLog) <= Len(GitUrlPlan)
      /\ \A i \in 1..Len(fetchLog) :
           /\ Fetch(fetchLog[i].url, fetchLog[i].refspecs, fetchLog[i].depth) = GitUrlPlan[i]
           /\ i < Len(fetchLog) => fetchLog[i].ok
      /\ resolved # None =>
           /\ Len(fetchLog) = Len(GitUrlPlan)
           /\ fetchLog[Len(fetchLog)].ok
      /\ (ResolutionEnded /\ resolved = None) =>
           /\ fetchLog # <<>>
           /\ ~fetchLog[Len(fetchLog)].ok

\* two URLs, two fetches
GitUrlOneFetchOrTwoWitness ==
    /\ InGitUrl
    /\ range.leftGitUrl # range.rightGitUrl
    /\ resolved # None
    /\ Len(fetchLog) = 2

\* ------------------------------------------------------------------------
\* Deleting refs
\* ------------------------------------------------------------------------

\* C27: deleteRefs attempts every ref of its argument: each ref whose deletion
\* did not fail is gone afterwards, whatever happened to the others, and no
\* other ref is touched; a ref that is missing is no error, and the call never
\* raises: the callback around it does not reject and the invocation ends as it
\* would have without it
DeleteRefsBestEffort ==
    [][deleteLog' # deleteLog =>
         LET call == deleteLog'[Len(deleteLog')]
             refs == SeqToSet(call.refs)
         IN  /\ deleteLog' = Append(deleteLog, call)
             /\ call.failed \subseteq refs
             /\ \A r \in refs \ call.failed : r \notin repoRefs'
             /\ repoRefs' \ refs = repoRefs \ refs
             /\ repoRefs' \subseteq repoRefs
             /\ cleanupLog' = Append(cleanupLog, [after |-> output, rejected |-> FALSE])
             /\ outcome' = IF Cli THEN pending ELSE outcome]_vars

\* a call on refs that were missing after a call that deleted one ref of two
\* and failed on the other
DeleteRefsBestEffortWitness ==
    /\ Len(deleteLog) = 2
    /\ deleteLog[1].failed # {}
    /\ deleteLog[1].failed # SeqToSet(deleteLog[1].refs)
    /\ \E r \in SeqToSet(deleteLog[2].refs) : r \notin deleteLog[1].failed
    /\ Len(cleanupLog) = 2
    /\ ~cleanupLog[2].rejected

\* ------------------------------------------------------------------------
\* The default branch
\* ------------------------------------------------------------------------

\* the place of a remote in the order of the search: origin, then the others
\* as git lists them
Place(remote) ==
    IF remote = <<"o", "r", "i", "g", "i", "n">> THEN 0  \* "origin"
    ELSE CHOOSE i \in DOMAIN env.remotes : env.remotes[i] = remote

ConventionalNames == <<<<"m", "a", "i", "n">>, <<"m", "a", "s", "t", "e", "r">>, <<"d", "e", "v", "e", "l", "o", "p">>, <<"t", "r", "u", "n", "k">>>>  \* "main", "master", "develop", "trunk"

\* the candidates that exist, each with its rank in the search: the symbolic
\* HEAD of a remote, a conventional branch of a remote, a conventional local
\* branch
Candidates ==
    LET remotes == SeqToSet(env.remotes)
    IN  { [rank |-> 100 + Place(r), ref |-> trim(env.heads[r].stdout)] :
            r \in { q \in remotes : /\ ~env.heads[q].threw
                                    /\ trim(env.heads[q].stdout) # Empty } }
        \cup
        { [rank |-> 200 + 10 * Place(p[1]) + p[2],
           ref |-> p[1] \o <<"/">> \o ConventionalNames[p[2]]] :
            p \in { q \in remotes \X (1..4) :
                      <<"r", "e", "f", "s", "/", "r", "e", "m", "o", "t", "e", "s", "/">> \o q[1] \o <<"/">> \o ConventionalNames[q[2]]  \* "refs/remotes/"
                        \in repoRefs } }
        \cup
        { [rank |-> 300 + b, ref |-> ConventionalNames[b]] :
            b \in { c \in 1..4 : <<"r", "e", "f", "s", "/", "h", "e", "a", "d", "s", "/">> \o ConventionalNames[c] \in repoRefs } }  \* "refs/heads/"

\* the base branch resolveAutoBaseRefs went on with, if any
BaseBranch == IF mbLog = <<>> THEN Empty ELSE mbLog[1].left

\* C28: the default branch is the first existing candidate in this order: the
\* symbolic HEAD of each remote, origin first; then main, master, develop and
\* trunk of each remote in the same order of remotes; then the local branches
\* main, master, develop and trunk; there is none only if no candidate exists
DefaultBranchOrder ==
    AutoBaseDone =>
      IF Candidates = {}
      THEN BaseBranch = Empty /\ outcome = NoBaseBranch
      ELSE \E c \in Candidates :
             /\ \A d \in Candidates : c.rank <= d.rank
             /\ BaseBranch = c.ref

\* origin's trunk is preferred to the main of a remote listed before origin
DefaultBranchOrderWitness ==
    /\ AutoBaseDone
    /\ env.remotes = <<<<"u", "p">>, <<"o", "r", "i", "g", "i", "n">>>>  \* "origin"
    /\ <<"r", "e", "f", "s", "/", "r", "e", "m", "o", "t", "e", "s", "/", "u", "p", "/", "m", "a", "i", "n">> \in repoRefs  \* "refs/remotes/up/main"
    /\ BaseBranch = <<"o", "r", "i", "g", "i", "n", "/", "t", "r", "u", "n", "k">>  \* "origin/trunk"

\* ------------------------------------------------------------------------
\* Two repositories in one remote shorthand
\* ------------------------------------------------------------------------

\* left..right with each side an owner/repo@ref, of two different owner/repo;
\* a colon would make a side a URL or a host shorthand
TwoRepositories(s) ==
    LET k == indexOf(s, DotDot)
        left == parseRemoteSide(trim(Take(s, k - 1)))
        right == parseRemoteSide(trim(Drop(s, k + 1)))
    IN  /\ k > 0
        /\ \A i \in DOMAIN s : s[i] # ":"
        /\ left.match
        /\ right.match
        /\ left.owner # right.owner \/ left.repo # right.repo

\* C29: a range whose sides are owner/repo@ref of two different repositories is
\* rejected with InvalidInput: it is parsed neither as remote-range nor as any
\* other variant
TwoRepositoriesRejected ==
    (parsed # None /\ TwoRepositories(input)) =>
      /\ parsed.kind = "error"
      /\ parsed.exitCode = INVALID_INPUT

\* ------------------------------------------------------------------------
\* Validation before plumbing
\* ------------------------------------------------------------------------

\* what the resolvers say of a range of the wrong variant, with a field
\* missing, or with a malformed owner/repo or remote ref
MalformedMessages ==
    { Lit("Invalid ref type for local resolver"),
      Lit("Invalid ref type for remote resolver"),
      Lit("Invalid remote ref format"),
      Lit("Invalid ref type for git URL resolver"),
      Lit("Invalid PR ref"),
      Lit("Invalid PR range"),
      Lit("Invalid GitLab MR ref"),
      Lit("Invalid GitHub commit URL"),
      Lit("Invalid GitHub PR changes URL"),
      Lit("Invalid GitHub compare URL"),
      Lit("Invalid owner/repo: ") }

\* the resolver has thrown one of them, wrapped or not
RejectedAsMalformed ==
    /\ callee # "none"
    /\ pc = "done"
    /\ resolved = None
    /\ outcome.kind = "error"
    /\ \E i \in 1..Len(outcome.message) : outcome.message[i] \in MalformedMessages

\* C30: a resolver validates the structure of its range before any plumbing:
\* when it has rejected the range as malformed, no fetch and no merge-base
\* lookup was issued and no temp ref was created
ValidationBeforePlumbing ==
    RejectedAsMalformed =>
      /\ fetchLog = <<>>
      /\ mbLog = <<>>
      /\ repoRefs = CallerRefs

\* a remote range whose sides are not owner/repo@ref was refused untouched
ValidationBeforePlumbingWitness ==
    /\ RejectedAsMalformed
    /\ callee = "resolveRemoteRefs"
    /\ outcome.message = <<Lit("Invalid remote ref format")>>
    /\ fetchLog = <<>>

\* ------------------------------------------------------------------------
\* Two invocations with different temp prefixes
\* ------------------------------------------------------------------------

\* both invocations have generated their prefix, and the two differ
DifferentPrefixes ==
    /\ tempPrefix # Empty
    /\ peer.prefix # Empty
    /\ tempPrefix # peer.prefix

\* what the cleanup of this invocation has deleted
Deleted ==
    UNION { SeqToSet(deleteLog[i].refs) \ deleteLog[i].failed : i \in 1..Len(deleteLog) }

\* C22: when two invocations at work in one repository have generated
\* different temp prefixes, whatever the interleaving, neither fetches into a
\* ref the other fetched into and neither deletes one, and the temp refs behind
\* the endpoints of each are in the repository until its own cleanup runs
InvocationsIsolated ==
    DifferentPrefixes =>
      /\ Created \cap peer.wrote = {}
      /\ Created \cap peer.gone = {}
      /\ Deleted \cap peer.wrote = {}
      /\ \A r \in peer.wrote : Under(r, peer.prefix) /\ ~Under(r, tempPrefix)
      /\ \A r \in Created : Under(r, tempPrefix) /\ ~Under(r, peer.prefix)
      /\ (HoldsCleanup /\ cleanupLog = <<>>) => SeqToSet(resolved.cleanupRefs) \subseteq repoRefs
      /\ peer.pc = "output" => peer.wrote \subseteq repoRefs

\* the other invocation has fetched and cleaned up while this one holds its
\* refs
InvocationsIsolatedWitness ==
    /\ DifferentPrefixes
    /\ peer.pc = "done"
    /\ peer.gone # {}
    /\ HoldsCleanup
    /\ cleanupLog = <<>>
    /\ resolved.cleanupRefs # <<>>
    /\ SeqToSet(resolved.cleanupRefs) \subseteq repoRefs

====
